---------------------------- MODULE Spec2Model ----------------------------
(***************************************************************************)
(* Model of the Kiro Streamlit application: the specification workflow     *)
(* engine (workflow.py), the document store (file_manager.py), the AI      *)
(* gateway (ai_client.py), the chat dispatch (chat_interface.py) and the   *)
(* intent classifier (intent_classifier.py).                               *)
(*                                                                         *)
(* Text is a sequence of one-character tokens.  "CR" and "LF" stand for    *)
(* the carriage-return and line-feed characters.                           *)
(***************************************************************************)
EXTENDS Integers, Sequences, FiniteSets, TLC

VARIABLES
    feature_name,   \* SpecWorkflow.feature_name
    current_phase,  \* SpecificationState.current_phase
    content,        \* SpecificationState.<type>_content, by document type
    approved,       \* SpecificationState.<type>_approved, by document type
    files,          \* the files under .kiro/specs: path -> characters on disk
    dirs,           \* the directories under .kiro/specs
    now,            \* the wall clock, in whole seconds
    last,           \* the operation that ran last, and what it returned
    ops             \* how many workflow operations have been called so far

vars == <<feature_name, current_phase, content, approved, files, dirs, now, last, ops>>

wfState == <<feature_name, current_phase, content, approved>>

-----------------------------------------------------------------------------
(* Bounds *)

\* the clock shows the seconds 0 .. MaxTime
MaxTime == 1

\* a run of the workflow engine makes at most MaxOps calls
MaxOps == 6

\* confidence scores handed to IntentResult are 0, 1/10, ..., MaxScore/10
MaxScore == 10

\* a feature name has at most MaxNameLen characters
MaxNameLen == 4

\* the model listing of the service has at most MaxModels entries
MaxModels == 2

\* the connectivity test is run at most MaxRuns times
MaxRuns == 2

\* a run of the conversation manager adds at most MaxAdds messages
MaxAdds == 12

\* a tasks document has at most MaxTaskLines lines
MaxTaskLines == 4

\* a model response has at most MaxLines lines
MaxLines == 5

\* one call of execute_file_operations gets at most MaxFileOps operations
MaxFileOps == 2

\* a chat message has at most MaxWords words
MaxWords == 3

\* a run of the document store makes at most MaxStoreOps calls
MaxStoreOps == 3

-----------------------------------------------------------------------------
(* Text helpers *)

UpperToLower == [c \in {"F", "G"} |-> IF c = "F" THEN "f" ELSE "g"]

\* str.lower() on one character
LowerChar(c) == IF c \in DOMAIN UpperToLower THEN UpperToLower[c] ELSE c

Letters == {"F", "G", "f", "g", "x", "u", "n", "a", "m", "e", "d", "t", "r", "b",
            "c", "o", "s", "p", "i"}

Digits == {"1"}

\* the regular-expression classes \w and \s
IsWordChar(c) == c \in Letters \/ c \in Digits \/ c = "_"
IsSpaceChar(c) == c \in {" ", "LF", "CR"}

\* re.sub(r'[\s_]+', '-', s): every maximal run of whitespace and underscores
\* becomes one hyphen
RECURSIVE CollapseRuns(_, _)
CollapseRuns(s, inRun) ==
    IF s = << >> THEN << >>
    ELSE IF IsSpaceChar(Head(s)) \/ Head(s) = "_"
         THEN (IF inRun THEN << >> ELSE <<"-">>) \o CollapseRuns(Tail(s), TRUE)
         ELSE <<Head(s)>> \o CollapseRuns(Tail(s), FALSE)

\* str.strip('-')
RECURSIVE StripLeft(_)
StripLeft(s) ==
    IF s # << >> /\ Head(s) = "-" THEN StripLeft(Tail(s)) ELSE s

RECURSIVE StripRight(_)
StripRight(s) ==
    IF s # << >> /\ s[Len(s)] = "-" THEN StripRight(SubSeq(s, 1, Len(s) - 1)) ELSE s

UnnamedFeature ==
    <<"u", "n", "n", "a", "m", "e", "d", "-", "f", "e", "a", "t", "u", "r", "e">>

_sanitize_feature_name_mut(name) ==
    LET lowered  == [i \in 1..Len(name) |-> LowerChar(name[i])]
        kept(c)  == IsWordChar(c) \/ IsSpaceChar(c) \/ c = "-"
        filtered == SelectSeq(lowered, kept)
        stripped == CollapseRuns(StripRight(StripLeft(filtered)), FALSE)
    IN  IF stripped = << >> THEN UnnamedFeature ELSE stripped

_sanitize_feature_name(name) ==
    LET lowered  == [i \in 1..Len(name) |-> LowerChar(name[i])]
        kept(c)  == IsWordChar(c) \/ IsSpaceChar(c) \/ c = "-"
        filtered == SelectSeq(lowered, kept)
        stripped == StripRight(StripLeft(CollapseRuns(filtered, FALSE)))
    IN  IF stripped = << >> THEN UnnamedFeature ELSE stripped

-----------------------------------------------------------------------------
(* Document store (FileManager) *)

DocTypes == {"requirements", "design", "tasks"}

\* the backup field of the path of <type>.md itself
NoStamp == -1

\* <type>.md of a specification directory
DocPath(dir, t) == [dir |-> dir, doc |-> t, stamp |-> NoStamp]

\* <type>_backup_<timestamp>.md; the timestamp has a resolution of one second
BackupPath(dir, t, ts) == [dir |-> dir, doc |-> t, stamp |-> ts]

Absent == <<"None">>

\* what open(..., 'w') in text mode puts on disk: "\n" becomes os.linesep
OsLinesep == <<"LF">>

RECURSIVE WriteText(_)
WriteText(s) ==
    IF s = << >> THEN << >>
    ELSE (IF Head(s) = "LF" THEN OsLinesep ELSE <<Head(s)>>) \o WriteText(Tail(s))

\* what f.read() in text mode returns: universal newlines, so "\r\n" and a
\* lone "\r" both come back as "\n"
RECURSIVE ReadText(_)
ReadText(s) ==
    IF s = << >> THEN << >>
    ELSE IF Head(s) = "CR"
         THEN IF Len(s) >= 2 /\ s[2] = "LF"
              THEN <<"LF">> \o ReadText(Tail(Tail(s)))
              ELSE <<"LF">> \o ReadText(Tail(s))
         ELSE <<Head(s)>> \o ReadText(Tail(s))

\* outcomes of opening a file for writing
IOOutcomes == {"ok", "fail"}

\* save_document: the disk afterwards (fs) and the value returned (ok)
save_document(fs, feature, t, text, io) ==
    IF t \notin DocTypes \/ io # "ok"
    THEN [fs |-> fs, ok |-> FALSE]
    ELSE [fs |-> (DocPath(_sanitize_feature_name(feature), t) :> WriteText(text)) @@ fs,
          ok |-> TRUE]

\* load_document: the text of <type>.md, or Absent when there is no such file
load_document(fs, feature, t) ==
    LET p == DocPath(_sanitize_feature_name(feature), t)
    IN  IF p \in DOMAIN fs THEN ReadText(fs[p]) ELSE Absent

\* backup_document: copies <type>.md to <type>_backup_<timestamp>.md
backup_document(fs, feature, t, clock, io) ==
    LET text == load_document(fs, feature, t)
        bp   == BackupPath(_sanitize_feature_name(feature), t, clock)
    IN  IF text = Absent \/ io # "ok"
        THEN [fs |-> fs, ok |-> FALSE]
        ELSE [fs |-> (bp :> WriteText(text)) @@ fs, ok |-> TRUE]

\* delete_spec: removes the whole specification directory
delete_spec(fs, feature) ==
    LET d == _sanitize_feature_name(feature)
    IN  [p \in {q \in DOMAIN fs : q.dir # d} |-> fs[p]]

\* the backup files of one document type in one directory
BackupFiles(fs, dir, t) ==
    {p \in DOMAIN fs : p.dir = dir /\ p.doc = t /\ p.stamp # NoStamp}

-----------------------------------------------------------------------------
(* Specification workflow engine (SpecWorkflow) *)

Phases == {"requirements", "design", "tasks", "complete"}

\* the feature names a workflow is constructed with: "F x" and "f_x" name the
\* same directory
WfNames == {<<"F", " ", "x">>, <<"f", "_", "x">>}

\* the texts AIClient.generate_content can return; the extracted text of a
\* response without a text field is the empty string
AIReplies == {<< >>, <<"a">>, <<"b">>}

NoPath == [dir |-> << >>, doc |-> "none", stamp |-> NoStamp]

NoContent == [t \in DocTypes |-> << >>]

NoApproval == [t \in DocTypes |-> FALSE]

\* one more call of a workflow operation, while the run may go on
Counted ==
    /\ ops < MaxOps
    /\ ops' = ops + 1

\* what an operation that raised or returned early leaves in last
Rejected(op, t, ret) ==
    [op |-> op, doc |-> t, ret |-> ret, ai |-> FALSE, wrote |-> FALSE, backup |-> NoPath]

\* SpecWorkflow.__init__ for a new feature name; the files on disk stay
SpecWorkflow(name) ==
    /\ Counted
    /\ feature_name' = name
    /\ current_phase' = "requirements"
    /\ content' = NoContent
    /\ approved' = NoApproval
    /\ dirs' = dirs \cup {_sanitize_feature_name(name)}
    /\ last' = Rejected("init", "none", "None")
    /\ UNCHANGED <<files, now>>

\* the common tail of create_*: ask the AI gateway, keep the text, save it
Generate(op, t, reply, io) ==
    LET s == save_document(files, feature_name, t, reply, io)
    IN  /\ Counted
        /\ content' = [content EXCEPT ![t] = reply]
        /\ files' = s.fs
        /\ last' = [op |-> op, doc |-> t, ret |-> "content", ai |-> TRUE,
                    wrote |-> s.ok, backup |-> NoPath]
        /\ UNCHANGED <<feature_name, current_phase, approved, dirs, now>>

\* the operation raises ValueError before it does anything
Raise(op, t) ==
    /\ Counted
    /\ last' = Rejected(op, t, "ValueError")
    /\ UNCHANGED <<wfState, files, dirs, now>>

create_requirements_allowed == current_phase = "requirements"

create_requirements(reply, io) ==
    IF ~create_requirements_allowed
    THEN Raise("create_requirements", "requirements")
    ELSE Generate("create_requirements", "requirements", reply, io)

create_design_allowed_mut == TRUE

create_design_allowed == current_phase = "design" /\ approved["requirements"]

create_design(reply, io) ==
    IF ~create_design_allowed
    THEN Raise("create_design", "design")
    ELSE Generate("create_design", "design", reply, io)

create_tasks_allowed == current_phase = "tasks" /\ approved["design"]

create_tasks(reply, io) ==
    IF ~create_tasks_allowed
    THEN Raise("create_tasks", "tasks")
    ELSE Generate("create_tasks", "tasks", reply, io)

\* the common body of update_*: back up, ask for the revision, keep and save it
Update(op, t, reply, ioBackup, ioSave) ==
    IF content[t] = << >>
    THEN /\ last' = Rejected(op, t, "ValueError")
         /\ UNCHANGED <<wfState, files, dirs, now>>
    ELSE LET b == backup_document(files, feature_name, t, now, ioBackup)
             s == save_document(b.fs, feature_name, t, reply, ioSave)
         IN  /\ content' = [content EXCEPT ![t] = reply]
             /\ files' = s.fs
             /\ last' = [op |-> op, doc |-> t, ret |-> "content", ai |-> TRUE,
                         wrote |-> s.ok,
                         backup |-> IF b.ok
                                    THEN BackupPath(_sanitize_feature_name(feature_name), t, now)
                                    ELSE NoPath]
             /\ UNCHANGED <<feature_name, current_phase, approved, dirs, now>>

update_requirements(reply, ioBackup, ioSave) ==
    /\ Counted
    /\ Update("update_requirements", "requirements", reply, ioBackup, ioSave)

update_design(reply, ioBackup, ioSave) ==
    /\ Counted
    /\ Update("update_design", "design", reply, ioBackup, ioSave)

update_tasks(reply, ioBackup, ioSave) ==
    /\ Counted
    /\ Update("update_tasks", "tasks", reply, ioBackup, ioSave)

\* the common body of approve_*: nothing but the content is looked at
Approve(op, t, next) ==
    IF content[t] = << >>
    THEN /\ last' = Rejected(op, t, "False")
         /\ UNCHANGED <<wfState, files, dirs, now>>
    ELSE /\ approved' = [approved EXCEPT ![t] = TRUE]
         /\ current_phase' = next
         /\ last' = Rejected(op, t, "True")
         /\ UNCHANGED <<feature_name, content, files, dirs, now>>

approve_requirements_mut ==
    /\ Counted
    /\ approved' = [approved EXCEPT !["requirements"] = TRUE]
    /\ current_phase' = "design"
    /\ last' = Rejected("approve_requirements", "requirements", "True")
    /\ UNCHANGED <<feature_name, content, files, dirs, now>>

approve_requirements ==
    /\ Counted
    /\ Approve("approve_requirements", "requirements", "design")

approve_design ==
    /\ Counted
    /\ Approve("approve_design", "design", "tasks")

approve_tasks ==
    /\ Counted
    /\ Approve("approve_tasks", "tasks", "complete")

\* a second of wall-clock time passes
Tick ==
    /\ now < MaxTime
    /\ now' = now + 1
    /\ UNCHANGED <<wfState, files, dirs, last, ops>>

Init ==
    /\ feature_name \in WfNames
    /\ current_phase = "requirements"
    /\ content = NoContent
    /\ approved = NoApproval
    /\ files = << >>
    /\ dirs = {_sanitize_feature_name(feature_name)}
    /\ now = 0
    /\ last = Rejected("init", "none", "None")
    /\ ops = 0

\* The runs of the workflow engine are explored on a disk that accepts every
\* write; failing writes are explored in the document store's specification.
Next ==
    \/ \E name \in WfNames : SpecWorkflow(name)
    \/ \E reply \in AIReplies : create_requirements(reply, "ok")
    \/ \E reply \in AIReplies : create_design(reply, "ok")
    \/ \E reply \in AIReplies : create_tasks(reply, "ok")
    \/ \E reply \in AIReplies : update_requirements(reply, "ok", "ok")
    \/ \E reply \in AIReplies : update_design(reply, "ok", "ok")
    \/ \E reply \in AIReplies : update_tasks(reply, "ok", "ok")
    \/ approve_requirements
    \/ approve_design
    \/ approve_tasks
    \/ Tick

Spec == Init /\ [][Next]_vars

-----------------------------------------------------------------------------
(* Claims about the workflow engine, checked under Spec *)

PhaseSucc ==
    [ph \in {"requirements", "design", "tasks"} |->
        IF ph = "requirements" THEN "design"
        ELSE IF ph = "design" THEN "tasks" ELSE "complete"]

CreateOp == [t \in DocTypes |-> IF t = "requirements" THEN "create_requirements"
                                ELSE IF t = "design" THEN "create_design"
                                ELSE "create_tasks"]

UpdateOp == [t \in DocTypes |-> IF t = "requirements" THEN "update_requirements"
                                ELSE IF t = "design" THEN "update_design"
                                ELSE "update_tasks"]

ApproveOp == [t \in DocTypes |-> IF t = "requirements" THEN "approve_requirements"
                                 ELSE IF t = "design" THEN "approve_design"
                                 ELSE "approve_tasks"]

\* this step is a call of the operation op
Called(op) == ops' = ops + 1 /\ last'.op = op

\* the directory of the workflow's specification
SpecDir == _sanitize_feature_name(feature_name)

\* C1: on one workflow object, every change of current_phase goes from a phase
\* to its immediate successor, and the phase that is left has non-empty content.
C1_PhaseOnlyStepsForward ==
    [][(last'.op # "init" /\ current_phase' # current_phase)
        => /\ current_phase # "complete"
           /\ current_phase' = PhaseSucc[current_phase]
           /\ content[current_phase] # << >>]_vars

\* the conditions under which the claim says a create_* call must fail
OutOfPhase(t) ==
    \/ t = "requirements" /\ current_phase # "requirements"
    \/ t = "design" /\ (current_phase # "design" \/ ~approved["requirements"])
    \/ t = "tasks" /\ (current_phase # "tasks" \/ ~approved["design"])

\* C2: a create_* call made out of phase (or before the approval it needs)
\* raises, does not call the AI gateway, changes no field of the workflow state
\* and creates or changes no file.
C2_OutOfPhaseCreateChangesNothing ==
    [][\A t \in DocTypes :
         (Called(CreateOp[t]) /\ OutOfPhase(t))
           => /\ last'.ret = "ValueError"
              /\ ~last'.ai
              /\ ~last'.wrote
              /\ UNCHANGED wfState
              /\ UNCHANGED files]_vars

\* a fresh workflow whose create_design call raised and left no design.md
C2_Witness ==
    /\ last.op = "create_design"
    /\ last.ret = "ValueError"
    /\ current_phase = "requirements"
    /\ content = NoContent
    /\ DocPath(SpecDir, "design") \notin DOMAIN files

\* C3: approve_* returns false and leaves the phase and the three approval flags
\* alone when the document content is empty; with content, and in the matching
\* phase, it sets exactly its own flag, advances the phase one step and returns
\* true.
C3_ApproveGate ==
    [][\A t \in DocTypes :
         Called(ApproveOp[t])
           => /\ (content[t] = << >>)
                    => /\ last'.ret = "False"
                       /\ current_phase' = current_phase
                       /\ approved' = approved
              /\ (content[t] # << >> /\ current_phase = t)
                    => /\ last'.ret = "True"
                       /\ approved' = [approved EXCEPT ![t] = TRUE]
                       /\ current_phase' = PhaseSucc[t]]_vars

\* approve_design has just advanced a workflow from DESIGN to TASKS
C3_Witness ==
    /\ last.op = "approve_design"
    /\ last.ret = "True"
    /\ current_phase = "tasks"
    /\ approved = [t \in DocTypes |-> t # "tasks"]

\* C4: whenever a create_* or update_* call writes <type>.md over an existing
\* file, the same call has first written a backup file that holds the content
\* being overwritten.
C4_BackupBeforeEveryOverwrite ==
    [][\A t \in DocTypes :
         ((Called(CreateOp[t]) \/ Called(UpdateOp[t]))
            /\ last'.wrote
            /\ DocPath(SpecDir, t) \in DOMAIN files)
           => /\ last'.backup \in DOMAIN files'
              /\ files'[last'.backup] = files[DocPath(SpecDir, t)]]_vars

\* C5: every update_* call that goes through on a document that exists on disk
\* adds exactly one backup file, and that new file holds the content the
\* document had before the update.
C5_EveryUpdateAddsOneBackup ==
    [][\A t \in DocTypes :
         (Called(UpdateOp[t])
            /\ last'.ret # "ValueError"
            /\ DocPath(SpecDir, t) \in DOMAIN files)
           => /\ Cardinality(BackupFiles(files', SpecDir, t))
                    = Cardinality(BackupFiles(files, SpecDir, t)) + 1
              /\ \E p \in BackupFiles(files', SpecDir, t) \ BackupFiles(files, SpecDir, t) :
                    files'[p] = files[DocPath(SpecDir, t)]]_vars

\* the workflow engine over a disk on which a write can fail: every save and
\* every backup either goes through or raises an I/O error
NextIO ==
    \/ \E name \in WfNames : SpecWorkflow(name)
    \/ \E reply \in AIReplies, io \in IOOutcomes : create_requirements(reply, io)
    \/ \E reply \in AIReplies, io \in IOOutcomes : create_design(reply, io)
    \/ \E reply \in AIReplies, io \in IOOutcomes : create_tasks(reply, io)
    \/ \E reply \in AIReplies, ioBackup, ioSave \in IOOutcomes :
          update_requirements(reply, ioBackup, ioSave)
    \/ \E reply \in AIReplies, ioBackup, ioSave \in IOOutcomes :
          update_design(reply, ioBackup, ioSave)
    \/ \E reply \in AIReplies, ioBackup, ioSave \in IOOutcomes :
          update_tasks(reply, ioBackup, ioSave)
    \/ approve_requirements
    \/ approve_design
    \/ approve_tasks
    \/ Tick

SpecIO == Init /\ [][NextIO]_vars

\* C25: after every create_* or update_* operation has returned, the file
\* <type>.md of the feature holds exactly the in-memory content of that type,
\* for every type whose in-memory content is not empty; also when a save fails
\* with an I/O error.
C25_DiskHoldsMemoryContent ==
    (last.op \in {CreateOp[t] : t \in DocTypes} \cup {UpdateOp[t] : t \in DocTypes}
     /\ last.ret = "content") =>
        \A t \in DocTypes :
            content[t] # << >> => load_document(files, feature_name, t) = content[t]

-----------------------------------------------------------------------------
(* The document store on its own: FileManager called directly *)

\* feature names handed to the store: "F x" and "f_x" name one directory,
\* "!" sanitizes to the directory unnamed-feature
StoreNames == {<<"F", " ", "x">>, <<"f", "_", "x">>, <<"!">>}

\* document contents handed to the store: empty, one line, two lines ending
\* in "\n", two lines ending in "\r\n"
StoreTexts == {<< >>, <<"a">>, <<"a", "LF", "b">>, <<"a", "CR", "LF", "b">>}

StoreCounted ==
    /\ ops < MaxStoreOps
    /\ ops' = ops + 1

\* FileManager.save_document(feature, t, text)
SaveCall(feature, t, text, io) ==
    LET s == save_document(files, feature, t, text, io)
    IN  /\ StoreCounted
        /\ files' = s.fs
        /\ dirs' = dirs \cup {_sanitize_feature_name(feature)}
        /\ last' = [op |-> "save", path |-> DocPath(_sanitize_feature_name(feature), t),
                    ret |-> IF s.ok THEN "True" ELSE "False", text |-> << >>]
        /\ UNCHANGED <<wfState, now>>

\* FileManager.load_document(feature, t)
LoadCall(feature, t) ==
    LET r == load_document(files, feature, t)
    IN  /\ StoreCounted
        /\ last' = [op |-> "load", path |-> DocPath(_sanitize_feature_name(feature), t),
                    ret |-> IF r = Absent THEN "None" ELSE "text",
                    text |-> IF r = Absent THEN << >> ELSE r]
        /\ UNCHANGED <<wfState, files, dirs, now>>

\* FileManager.delete_spec(feature)
DeleteCall(feature) ==
    LET d == _sanitize_feature_name(feature)
    IN  /\ StoreCounted
        /\ files' = delete_spec(files, feature)
        /\ dirs' = dirs \ {d}
        /\ last' = [op |-> "delete", path |-> NoPath,
                    ret |-> IF d \in dirs THEN "True" ELSE "False", text |-> << >>]
        /\ UNCHANGED <<wfState, now>>

InitStore ==
    /\ feature_name = << >>
    /\ current_phase = "requirements"
    /\ content = NoContent
    /\ approved = NoApproval
    /\ files = << >>
    /\ dirs = {}
    /\ now = 0
    /\ last = [op |-> "init", path |-> NoPath, ret |-> "None", text |-> << >>]
    /\ ops = 0

NextStore ==
    \/ \E f \in StoreNames, t \in DocTypes, x \in StoreTexts, io \in IOOutcomes :
          SaveCall(f, t, x, io)
    \/ \E f \in StoreNames, t \in DocTypes : LoadCall(f, t)
    \/ \E f \in StoreNames : DeleteCall(f)

SpecStore == InitStore /\ [][NextStore]_vars

\* C6: straight after a successful save(f, t, X), load(g, t) returns exactly X
\* for every name g that sanitizes to the directory of f; and a load of a
\* document that is not on disk returns the absent value.
C6_LoadReturnsWhatWasSaved ==
    [][/\ \A f \in StoreNames, t \in DocTypes, X \in StoreTexts :
            (/\ ops' = ops + 1
             /\ last'.op = "save"
             /\ last'.ret = "True"
             /\ last'.path = DocPath(_sanitize_feature_name(f), t)
             /\ files'[last'.path] = WriteText(X))
              => \A g \in StoreNames :
                    _sanitize_feature_name(g) = _sanitize_feature_name(f)
                       => load_document(files', g, t) = X
       /\ (ops' = ops + 1 /\ last'.op = "load" /\ last'.path \notin DOMAIN files)
              => last'.ret = "None"]_vars

-----------------------------------------------------------------------------
(* AI gateway (AIClient) *)

\* model identifiers an AIClient can hold: one per supported family, and one
\* that the catalog may carry after discovery but that is of neither family
ModelIds == {"amazon.nova-pro-v1:0", "anthropic.claude-3-7-sonnet-20250219-v1:0",
             "meta.llama3-70b-instruct-v1:0"}

\* "amazon.nova" in model_id, and "nova" in model_id.lower()
IsNova(id) == id = "amazon.nova-pro-v1:0"

\* "anthropic.claude" in model_id, and "claude" in model_id.lower()
IsClaude(id) == id = "anthropic.claude-3-7-sonnet-20250219-v1:0"

\* the response bodies of a call that went through:
\*   text            the expected shape, carrying a text string
\*   no_text         the expected shape without the text field
\*   text_not_string the expected shape with a number as text
\*   empty_content   the content list is empty
\*   content_scalar  content is a number instead of a list
\*   not_object      the body is a JSON list
\*   not_json        the body is not JSON
Bodies == {"text", "no_text", "text_not_string", "empty_content", "content_scalar",
           "not_object", "not_json"}

ErrorCodes == {"AccessDeniedException", "ThrottlingException", "ValidationException",
               "ResourceNotFoundException", "InternalServerException"}

Outcome(kind, body, hasError, hasCode, hasMessage, code) ==
    [kind |-> kind, body |-> body, hasError |-> hasError, hasCode |-> hasCode,
     hasMessage |-> hasMessage, code |-> code]

\* what bedrock_client.invoke_model can do: return a body, raise a ClientError
\* (whose response may lack Error, Error.Code or Error.Message), raise a
\* BotoCoreError, or raise anything else
InvokeOutcomes ==
    {Outcome("body", b, FALSE, FALSE, FALSE, "none") : b \in Bodies}
    \cup {Outcome("ClientError", "none", TRUE, TRUE, m, c) :
             m \in BOOLEAN, c \in ErrorCodes}
    \cup {Outcome("ClientError", "none", TRUE, FALSE, m, "none") : m \in BOOLEAN}
    \cup {Outcome("ClientError", "none", FALSE, FALSE, FALSE, "none")}
    \cup {Outcome("BotoCoreError", "none", FALSE, FALSE, FALSE, "none")}
    \cup {Outcome("Exception", "none", FALSE, FALSE, FALSE, "none")}

\* results: a returned string, a returned non-string, a returned
\* (bool, message) pair, or an exception that leaves the operation
Str(text) == [kind |-> "str", ok |-> "none", text |-> text]
NonStr == [kind |-> "nonstr", ok |-> "none", text |-> "a number"]
Pair(ok, text) == [kind |-> "pair", ok |-> IF ok THEN "True" ELSE "False", text |-> text]
Raised(exc) == [kind |-> "raise", ok |-> "none", text |-> exc]

\* e.response['Error']['Code'] can be read
CodeReadable(o) == o.hasError /\ o.hasCode

\* e.response['Error']['Message'] can be read
MessageReadable(o) == o.hasError /\ o.hasMessage

\* _extract_response_content on a decoded body, called from generate_content
_extract_response_content(id, body) ==
    IF body = "not_object" THEN Str("Unexpected Error")
    ELSE IF ~IsNova(id) /\ ~IsClaude(id) THEN Str("Unsupported model response format")
    ELSE IF body \in {"empty_content", "content_scalar"} THEN Str("Error parsing response")
    ELSE IF body = "no_text" THEN Str("")
    ELSE IF body = "text_not_string" THEN NonStr
    ELSE Str("generated text")

\* AIClient.generate_content for one outcome of the service call
generate_content_result(id, o) ==
    IF ~IsNova(id) /\ ~IsClaude(id) THEN Str("Unexpected Error")
    ELSE IF o.kind = "body"
         THEN IF o.body = "not_json" THEN Str("Unexpected Error")
              ELSE _extract_response_content(id, o.body)
    ELSE IF o.kind = "ClientError"
         THEN IF ~CodeReadable(o) THEN Raised("KeyError")
              ELSE IF o.code = "AccessDeniedException" THEN Str("Error: Access denied")
              ELSE IF o.code = "ThrottlingException" THEN Str("Error: Request throttled")
              ELSE IF o.code = "ValidationException" THEN Str("Error: Invalid request")
              ELSE IF ~MessageReadable(o) THEN Raised("KeyError")
              ELSE Str("AWS Error")
    ELSE IF o.kind = "BotoCoreError" THEN Str("Connection Error")
    ELSE Str("Unexpected Error")

\* the outer handlers of test_connection, for an exception that reaches them
test_connection_handlers(o) ==
    IF o.kind = "ClientError"
    THEN IF ~CodeReadable(o) \/ ~MessageReadable(o) THEN Raised("KeyError")
         ELSE IF o.code = "AccessDeniedException" THEN Pair(FALSE, "Access denied")
         ELSE IF o.code = "ThrottlingException" THEN Pair(FALSE, "Request throttled")
         ELSE IF o.code = "ValidationException" THEN Pair(FALSE, "Model validation failed")
         ELSE IF o.code = "ResourceNotFoundException" THEN Pair(FALSE, "Model not found")
         ELSE Pair(FALSE, "AWS Error")
    ELSE Pair(FALSE, "Connection error")

\* the loop over the Nova request formats, from format i on: the result and the
\* number of formats tried
RECURSIVE NovaFormats(_, _)
NovaFormats(os, i) ==
    IF i > Len(os)
    THEN [ret |-> Pair(FALSE, "All Nova request formats failed"), tried |-> Len(os)]
    ELSE LET o == os[i]
         IN  IF o.kind = "body"
             THEN IF o.body = "not_json"
                  THEN [ret |-> Pair(FALSE, "Connection error"), tried |-> i]
                  ELSE [ret |-> Pair(TRUE, "Model connection successful"), tried |-> i]
             ELSE IF o.kind = "ClientError"
                  THEN IF CodeReadable(o) /\ MessageReadable(o)
                       THEN NovaFormats(os, i + 1)
                       \* the KeyError raised while printing is caught by the
                       \* outer except Exception
                       ELSE [ret |-> Pair(FALSE, "Connection error"), tried |-> i]
             ELSE [ret |-> Pair(FALSE, "Connection error"), tried |-> i]

\* AIClient.test_connection; os[i] is the outcome of the i-th service call
test_connection_result(id, os) ==
    IF IsNova(id) THEN NovaFormats(os, 1)
    ELSE IF IsClaude(id)
         THEN LET o == os[1]
              IN  IF o.kind = "body"
                  THEN IF o.body = "not_json"
                       THEN [ret |-> Pair(FALSE, "Connection error"), tried |-> 1]
                       ELSE [ret |-> Pair(TRUE, "Model connection successful"), tried |-> 1]
                  ELSE [ret |-> test_connection_handlers(o), tried |-> 1]
    ELSE [ret |-> Pair(FALSE, "Unsupported model type"), tried |-> 0]

\* the three request formats tried for a Nova model
NovaFormatCount == 3

\* a call on a client built for last.model_id, while the service behaves as
\* last.outcomes says
generate_content ==
    /\ last.op = "init"
    /\ last' = [last EXCEPT !.op = "generate_content",
                            !.ret = generate_content_result(last.model_id, last.outcomes[1]),
                            !.tried = 1]
    /\ UNCHANGED <<wfState, files, dirs, now, ops>>

test_connection ==
    LET r == test_connection_result(last.model_id, last.outcomes)
    IN  /\ last.op = "init"
        /\ last' = [last EXCEPT !.op = "test_connection", !.ret = r.ret, !.tried = r.tried]
        /\ UNCHANGED <<wfState, files, dirs, now, ops>>

\* a client for any model of the catalog, and any behaviour of the service
InitAI ==
    /\ feature_name = << >>
    /\ current_phase = "requirements"
    /\ content = NoContent
    /\ approved = NoApproval
    /\ files = << >>
    /\ dirs = {}
    /\ now = 0
    /\ ops = 0
    /\ \E id \in ModelIds, os \in [1..NovaFormatCount -> InvokeOutcomes] :
          last = [op |-> "init", model_id |-> id, outcomes |-> os,
                  ret |-> Str(""), tried |-> 0]

NextAI ==
    \/ generate_content
    \/ test_connection

SpecAI == InitAI /\ [][NextAI]_vars

\* C7: whatever the service call does, generate_content and test_connection
\* hand a value back to their caller (a string, a pair); neither raises.
C7_GatewayNeverRaises ==
    last.op \in {"generate_content", "test_connection"} => last.ret.kind # "raise"

\* the service accepted the i-th request shape: the call returned and its body
\* decoded
Accepted(i) == last.outcomes[i].kind = "body" /\ last.outcomes[i].body # "not_json"

\* C21: for a Nova model, test_connection tries the three request shapes in
\* order, stops at the first one the service accepts and returns success; it
\* returns failure only after all three were attempted and each was rejected,
\* whatever kind of error rejected an earlier shape.
C21_NovaTriesEveryShape ==
    (last.op = "test_connection" /\ IsNova(last.model_id)) =>
        /\ (\E i \in 1..NovaFormatCount : Accepted(i)) =>
               /\ last.ret = Pair(TRUE, "Model connection successful")
               /\ Accepted(last.tried)
               /\ \A j \in 1..(last.tried - 1) : ~Accepted(j)
        /\ last.ret.ok = "False" =>
               /\ last.tried = NovaFormatCount
               /\ \A i \in 1..NovaFormatCount : ~Accepted(i)

-----------------------------------------------------------------------------
(* Chat dispatch (ChatInterface._handle_unified_kiro_request) *)

(* A chat message is modelled as the sequence of its lower-cased words, which   *)
(* single blanks separate.  `keyword in user_lower` is substring containment:   *)
(* a phrase of several words occurs where a word of the message ends with its   *)
(* first word, the next words equal its middle words, and a word starts with    *)
(* its last word.                                                               *)

Vocabulary == {"create", "spec", "specification", "for", "generate", "jira",
               "execute", "implement", "task", "list", "next", "update",
               "requirement", "design", "hello", "1"}

RECURSIVE WordSeqs(_)
WordSeqs(n) ==
    IF n = 0 THEN {<< >>}
    ELSE LET shorter == WordSeqs(n - 1)
         IN  shorter \cup {Append(m, w) : m \in shorter, w \in Vocabulary}

\* the only word of the vocabulary that is a proper prefix of another one
WordStartsWith(w, k) == w = k \/ (w = "specification" /\ k = "spec")

\* no word of the vocabulary is a proper suffix or an inner part of another one
WordEndsWith(w, k) == w = k

WordContains(w, k) == WordStartsWith(w, k) \/ WordEndsWith(w, k)

\* phrase in message
ContainsPhrase(msg, kw) ==
    \E i \in 1..Len(msg) :
        /\ i + Len(kw) - 1 <= Len(msg)
        /\ IF Len(kw) = 1 THEN WordContains(msg[i], kw[1])
           ELSE /\ WordEndsWith(msg[i], kw[1])
                /\ \A j \in 2..(Len(kw) - 1) : msg[i + j - 1] = kw[j]
                /\ WordStartsWith(msg[i + Len(kw) - 1], kw[Len(kw)])

\* any(keyword in user_lower for keyword in [...])
AnyPhrase(msg, kws) == \E kw \in kws : ContainsPhrase(msg, kw)

SpecCreationPhrases ==
    {<<"create", "spec">>, <<"create", "specification">>, <<"generate", "spec">>,
     <<"spec", "for">>}

JiraPhrases ==
    {<<"create", "jira">>, <<"jira", "ticket">>, <<"jira", "task">>, <<"generate", "jira">>}

TaskExecutionPhrases ==
    {<<"execute", "task">>, <<"implement", "task">>, <<"start", "task">>,
     <<"run", "task">>, <<"work", "on", "task">>}

TaskListingPhrases ==
    {<<"list", "task">>, <<"show", "task">>, <<"available", "task">>, <<"what", "task">>}

NextTaskPhrases ==
    {<<"next", "task">>, <<"what", "next">>, <<"what", "should", "i">>, <<"recommend">>}

vibe_keywords ==
    {<<"create", "file">>, <<"write", "file">>, <<"generate", "code">>,
     <<"modify", "file">>, <<"edit", "file">>, <<"delete", "file">>, <<"refactor">>,
     <<"implement">>, <<"add", "function">>, <<"create", "class">>,
     <<"write", "script">>, <<"generate">>, <<"build">>, <<"make", "file">>,
     <<"update", "code">>, <<"fix", "code">>, <<"improve", "code">>, <<"optimize">>,
     <<"add", "to", "file">>}

RequirementsUpdatePhrases ==
    {<<"update", "requirement">>, <<"modify", "requirement">>, <<"change", "requirement">>}

DesignUpdatePhrases ==
    {<<"update", "design">>, <<"modify", "design">>, <<"change", "design">>}

TasksUpdatePhrases ==
    {<<"add", "task">>, <<"more", "task">>, <<"update", "task">>}

_is_vibe_coding_request(msg) == AnyPhrase(msg, vibe_keywords)

IsDigits(w) == w = "1"

\* the word that follows the first occurrence of keyword, "" when there is none
RECURSIVE WordAfter(_, _, _)
WordAfter(msg, keyword, i) ==
    IF i + Len(keyword) > Len(msg) THEN ""
    ELSE IF \A j \in 1..Len(keyword) : msg[i + j - 1] = keyword[j]
         THEN msg[i + Len(keyword)]
         ELSE WordAfter(msg, keyword, i + 1)

\* re.sub(r'\b(task|the|a|an)\b', '', task_name).strip()
CleanTaskName(w) == IF w \in {"task", "the", "a", "an"} THEN "" ELSE w

ExtractKeywords == <<<<"execute">>, <<"implement">>, <<"start">>, <<"work", "on">>, <<"run">>>>

RECURSIVE TaskNameAfter(_, _)
TaskNameAfter(msg, k) ==
    IF k > Len(ExtractKeywords) THEN ""
    ELSE LET name == CleanTaskName(WordAfter(msg, ExtractKeywords[k], 1))
         IN  IF name # "" THEN name ELSE TaskNameAfter(msg, k + 1)

\* _extract_task_identifier: "task-N" for the first "task N", else the word
\* after the first action keyword that leaves a name
_extract_task_identifier(msg) ==
    IF \E i \in 1..(Len(msg) - 1) : WordEndsWith(msg[i], "task") /\ IsDigits(msg[i + 1])
    THEN "task-N"
    ELSE TaskNameAfter(msg, 1)

\* the handlers that run for a message, in the order in which they run; each
\* is recorded with the branch of the dispatch that called it
Ran(group, handler) == <<[group |-> group, handler |-> handler]>>

\* `if self.current_workflow: ... else: "I need an active specification ..."`
Guarded(workflow, group, handler) ==
    Ran(group, IF workflow THEN handler ELSE "needs_workflow")

_handle_unified_kiro_request_mut(msg, workflow) ==
    IF AnyPhrase(msg, SpecCreationPhrases) THEN Ran("spec-creation", "_create_spec_from_chat")
    ELSE IF _is_vibe_coding_request(msg) THEN Ran("vibe-coding", "_handle_vibe_coding")
    ELSE IF AnyPhrase(msg, JiraPhrases) THEN Guarded(workflow, "jira", "create_jira_tickets")
    ELSE IF AnyPhrase(msg, TaskExecutionPhrases)
         THEN Guarded(workflow, "task-execution",
                      IF _extract_task_identifier(msg) # ""
                      THEN "execute_task" ELSE "list_available_tasks")
    ELSE IF AnyPhrase(msg, TaskListingPhrases)
         THEN Guarded(workflow, "task-listing", "list_available_tasks")
    ELSE IF AnyPhrase(msg, NextTaskPhrases)
         THEN Guarded(workflow, "next-task", "get_next_task")
    ELSE IF AnyPhrase(msg, RequirementsUpdatePhrases)
         THEN Guarded(workflow, "requirements-update", "update_requirements")
    ELSE IF AnyPhrase(msg, DesignUpdatePhrases)
         THEN Guarded(workflow, "design-update", "update_design")
    ELSE IF AnyPhrase(msg, TasksUpdatePhrases)
         THEN Guarded(workflow, "tasks-update", "update_tasks")
    ELSE IF workflow THEN Ran("answer", "contextual_answer")
    ELSE Ran("answer", "_generate_kiro_response")

_handle_unified_kiro_request(msg, workflow) ==
    IF AnyPhrase(msg, SpecCreationPhrases) THEN Ran("spec-creation", "_create_spec_from_chat")
    ELSE IF AnyPhrase(msg, JiraPhrases) THEN Guarded(workflow, "jira", "create_jira_tickets")
    ELSE IF AnyPhrase(msg, TaskExecutionPhrases)
         THEN Guarded(workflow, "task-execution",
                      IF _extract_task_identifier(msg) # ""
                      THEN "execute_task" ELSE "list_available_tasks")
    ELSE IF AnyPhrase(msg, TaskListingPhrases)
         THEN Guarded(workflow, "task-listing", "list_available_tasks")
    ELSE IF AnyPhrase(msg, NextTaskPhrases)
         THEN Guarded(workflow, "next-task", "get_next_task")
    ELSE IF _is_vibe_coding_request(msg) THEN Ran("vibe-coding", "_handle_vibe_coding")
    ELSE IF AnyPhrase(msg, RequirementsUpdatePhrases)
         THEN Guarded(workflow, "requirements-update", "update_requirements")
    ELSE IF AnyPhrase(msg, DesignUpdatePhrases)
         THEN Guarded(workflow, "design-update", "update_design")
    ELSE IF AnyPhrase(msg, TasksUpdatePhrases)
         THEN Guarded(workflow, "tasks-update", "update_tasks")
    ELSE IF workflow THEN Ran("answer", "contextual_answer")
    ELSE Ran("answer", "_generate_kiro_response")

\* _process_user_input with a working directory configured
handle_message ==
    /\ last.op = "init"
    /\ last' = [last EXCEPT !.op = "handled",
                            !.ran = _handle_unified_kiro_request(last.msg, last.workflow)]
    /\ UNCHANGED <<wfState, files, dirs, now, ops>>

\* any message, with or without an active workflow in the session
InitChat ==
    /\ feature_name = << >>
    /\ current_phase = "requirements"
    /\ content = NoContent
    /\ approved = NoApproval
    /\ files = << >>
    /\ dirs = {}
    /\ now = 0
    /\ ops = 0
    /\ \E m \in WordSeqs(MaxWords), w \in BOOLEAN :
          last = [op |-> "init", msg |-> m, workflow |-> w, ran |-> << >>]

NextChat == handle_message

SpecChat == InitChat /\ [][NextChat]_vars

\* the groups of triggers in the order the specification gives them
GroupOrder ==
    <<[group |-> "spec-creation",       triggers |-> SpecCreationPhrases],
      [group |-> "jira",                triggers |-> JiraPhrases],
      [group |-> "task-execution",      triggers |-> TaskExecutionPhrases],
      [group |-> "task-listing",        triggers |-> TaskListingPhrases],
      [group |-> "next-task",           triggers |-> NextTaskPhrases],
      [group |-> "vibe-coding",         triggers |-> vibe_keywords],
      [group |-> "requirements-update", triggers |-> RequirementsUpdatePhrases],
      [group |-> "design-update",       triggers |-> DesignUpdatePhrases],
      [group |-> "tasks-update",        triggers |-> TasksUpdatePhrases]>>

GroupMatches(msg, i) == \E kw \in GroupOrder[i].triggers : ContainsPhrase(msg, kw)

MatchingGroups(msg) == {i \in 1..Len(GroupOrder) : GroupMatches(msg, i)}

\* C8: for every message exactly one handler runs, and it is the handler of the
\* first group, in the fixed order, one of whose triggers the message contains;
\* a message that contains no trigger gets a contextual or a general answer.
C8_FirstMatchingGroupDecides ==
    last.op = "handled" =>
        /\ Len(last.ran) = 1
        /\ IF MatchingGroups(last.msg) = {}
           THEN /\ last.ran[1].group = "answer"
                /\ last.ran[1].handler =
                       IF last.workflow THEN "contextual_answer" ELSE "_generate_kiro_response"
           ELSE \E i \in MatchingGroups(last.msg) :
                    /\ \A j \in MatchingGroups(last.msg) : i <= j
                    /\ last.ran[1].group = GroupOrder[i].group

\* a message with a Jira trigger and a vibe-coding trigger went to the Jira branch
C8_Witness ==
    /\ last.op = "handled"
    /\ {2, 6} \subseteq MatchingGroups(last.msg)
    /\ 1 \notin MatchingGroups(last.msg)
    /\ last.workflow
    /\ last.ran = Ran("jira", "create_jira_tickets")

-----------------------------------------------------------------------------
(* Intent classification (intent_classifier.py) *)

(* Scores are exact fractions n/d with d > 0; the floats of the program are     *)
(* compared and divided at this precision.                                      *)
Rat(n, d) == [n |-> n, d |-> d]
Tenths(x) == Rat(x, 10)
RatEq(a, b) == a.n * b.d = b.n * a.d
RatGt(a, b) == a.n * b.d > b.n * a.d
RatMax(a, b) == IF RatGt(b, a) THEN b ELSE a

IntentResult(chat, do, spec) == [chat |-> chat, do |-> do, spec |-> spec]

primary_intent_mut(r) ==
    IF RatGt(r.spec, RatMax(r.chat, r.do)) THEN "spec"
    ELSE IF RatGt(r.do, r.chat) \/ RatEq(r.do, r.chat) THEN "do"
    ELSE "chat"

primary_intent(r) ==
    IF RatGt(r.spec, RatMax(r.chat, r.do)) THEN "spec"
    ELSE IF RatGt(r.do, r.chat) THEN "do"
    ELSE "chat"

\* the (mode, confidence) pair chosen from a classification result
ModeOf(r) ==
    IF RatGt(r.spec, RatMax(r.chat, r.do)) THEN [mode |-> "spec", confidence |-> r.spec]
    ELSE IF RatGt(r.do, r.chat) THEN [mode |-> "do", confidence |-> r.do]
    ELSE [mode |-> "chat", confidence |-> r.chat]

DefaultDo == IntentResult(Tenths(1), Tenths(8), Tenths(1))
StrongSpec == IntentResult(Tenths(0), Tenths(1), Tenths(9))

spec_keywords ==
    {<<"create", "a", "spec">>, <<"generate", "a", "spec">>, <<"create", "specification">>,
     <<"generate", "specification">>, <<"formal", "spec">>, <<"spec", "document">>,
     <<"execute", "task">>, <<"start", "task">>, <<"next", "task">>, <<"task", "from">>,
     <<"spec", "for">>}

ImperativeVerbs == {"write", "create", "generate", "build", "make", "add", "remove",
                    "delete", "update", "modify", "fix", "refactor"}
WhOpeners == {"how", "what", "why", "when", "where", "who"}
YesNoOpeners == {"can", "could", "should", "would", "will", "is", "are", "do", "does"}

\* re.match anchors every pattern at the start of the message: an opener has to
\* be the whole first word with a blank after it, and r"\?$" only matches the
\* message "?"
do_patterns(msg) ==
    \/ Len(msg) >= 2 /\ msg[1] \in ImperativeVerbs \cup WhOpeners \cup YesNoOpeners
    \/ msg = <<"?">>

NoRule == [hit |-> FALSE, result |-> DefaultDo]

_rule_based_classification(msg) ==
    IF AnyPhrase(msg, spec_keywords) THEN [hit |-> TRUE, result |-> StrongSpec]
    ELSE IF do_patterns(msg) THEN [hit |-> TRUE, result |-> DefaultDo]
    ELSE NoRule

(* What ai_client.generate_response does: it raises, or it returns a value.  A  *)
(* returned value is not a string, is no JSON text, or is the JSON text of a    *)
(* list, a string, a number, null, or an object.  The value under a key of an   *)
(* object is a number (in tenths), true, false, a string or null; a key may     *)
(* be missing.                                                                  *)
NumVals == {-5, 0, 3, 5}
Num(x) == [t |-> "number", v |-> x]
JTrue == [t |-> "true", v |-> 10]
JFalse == [t |-> "false", v |-> 0]
JString == [t |-> "string", v |-> 0]
JNull == [t |-> "null", v |-> 0]
Missing == [t |-> "missing", v |-> 0]
FieldValues == {Num(x) : x \in NumVals} \cup {JTrue, JFalse, JString, JNull, Missing}
ExtraValues == {Missing, Num(5), JString}
RequiredKeys == {"chat", "do", "spec"}
NoFields == [k \in RequiredKeys \cup {"other"} |-> Missing]

Reply(kind, exc, fields) == [kind |-> kind, exc |-> exc, fields |-> fields]

JsonObjects ==
    {Reply("json_object", "none",
           [k \in RequiredKeys \cup {"other"} |->
               IF k = "chat" THEN c ELSE IF k = "do" THEN d ELSE IF k = "spec" THEN s ELSE o]) :
        c \in FieldValues, d \in FieldValues, s \in FieldValues, o \in ExtraValues}

\* AIClient defines no generate_response: calling it raises AttributeError
Replies ==
    {Reply("raise", e, NoFields) : e \in {"AttributeError", "Exception"}}
    \cup {Reply(k, "none", NoFields) :
            k \in {"not_a_string", "not_json", "json_list", "json_list_of_keys",
                   "json_string", "json_string_of_keys", "json_number", "json_null"}}
    \cup JsonObjects

Return(r) == [kind |-> "return", exc |-> "none", value |-> r]
Throw(e) == [kind |-> "raise", exc |-> e, value |-> DefaultDo]

\* Python adds and divides numbers, True and False; anything else is a TypeError
Summable(v) == v.t \in {"number", "true", "false"}
Present(fields) == {k \in DOMAIN fields : fields[k] # Missing}
RECURSIVE SumOver(_, _)
SumOver(fields, keys) ==
    IF keys = {} THEN 0
    ELSE LET k == CHOOSE x \in keys : TRUE
         IN  fields[k].v + SumOver(fields, keys \ {k})
Total(fields) == SumOver(fields, Present(fields))
Abs(x) == IF x < 0 THEN -x ELSE x

\* abs(total - 1.0) > 0.1; a total exactly 0.1 away from 1.0 goes either way
\* with the rounding of the float sum
NormalizeChoices(reply) ==
    IF reply.kind # "json_object" \/ \E k \in Present(reply.fields) : ~Summable(reply.fields[k])
    THEN {FALSE}
    ELSE IF Abs(Total(reply.fields) - 10) > 1 THEN {TRUE}
    ELSE IF Abs(Total(reply.fields) - 10) = 1 THEN BOOLEAN
    ELSE {FALSE}

Divide(x, total) == IF total < 0 THEN Rat(-x, -total) ELSE Rat(x, total)

\* the inner try block of _ai_based_classification, before its handlers
ParseReply(reply, normalize) ==
    IF reply.kind = "not_a_string" THEN Throw("AttributeError")
    ELSE IF reply.kind = "not_json" THEN Throw("JSONDecodeError")
    ELSE IF reply.kind \in {"json_list", "json_string"} THEN Throw("ValueError")
    ELSE IF reply.kind \in {"json_number", "json_null"} THEN Throw("TypeError")
    ELSE IF reply.kind \in {"json_list_of_keys", "json_string_of_keys"}
         THEN Throw("AttributeError")
    ELSE LET f == reply.fields
             total == Total(f)
         IN  IF \E k \in RequiredKeys : f[k] = Missing THEN Throw("ValueError")
             ELSE IF \E k \in Present(f) : ~Summable(f[k]) THEN Throw("TypeError")
             ELSE IF normalize
                  THEN IF total = 0 THEN Throw("ZeroDivisionError")
                       ELSE Return(IntentResult(Divide(f["chat"].v, total),
                                                Divide(f["do"].v, total),
                                                Divide(f["spec"].v, total)))
                  ELSE Return(IntentResult(Tenths(f["chat"].v), Tenths(f["do"].v),
                                           Tenths(f["spec"].v)))

\* except (json.JSONDecodeError, ValueError, KeyError): return the default
ExceptParseErrors(o) ==
    IF o.kind = "raise" /\ o.exc \in {"JSONDecodeError", "ValueError", "KeyError"}
    THEN Return(DefaultDo) ELSE o

\* except Exception: return the default
ExceptException(o) == IF o.kind = "raise" THEN Return(DefaultDo) ELSE o

_ai_based_classification(reply, normalize) ==
    ExceptException(IF reply.kind = "raise" THEN Throw(reply.exc)
                    ELSE ExceptParseErrors(ParseReply(reply, normalize)))

classify_intent_result(msg, reply, normalize) ==
    ExceptException(IF _rule_based_classification(msg).hit
                    THEN Return(_rule_based_classification(msg).result)
                    ELSE _ai_based_classification(reply, normalize))

IntentMessages ==
    {<<"hello">>, <<"create">>, <<"hello", "?">>, <<"?">>, <<"create", "jira">>,
     <<"what", "next">>, <<"spec", "for", "hello">>}

\* how often classify_intent calls ai_client.generate_response: once, and only
\* when the rules gave no result
generate_response_calls(msg) == IF _rule_based_classification(msg).hit THEN 0 ELSE 1

NoReply == Reply("none", "none", NoFields)
NoMode == [mode |-> "none", confidence |-> Tenths(0)]

classify_intent ==
    /\ last.op = "message"
    /\ \E normalize \in NormalizeChoices(last.reply) :
          LET o == classify_intent_result(last.msg, last.reply, normalize)
          IN  last' = [last EXCEPT !.op = "classify_intent", !.ret = o.kind,
                                   !.result = o.value,
                                   !.calls = generate_response_calls(last.msg)]
    /\ UNCHANGED <<wfState, files, dirs, now, ops>>

get_mode_recommendation ==
    /\ last.op = "message"
    /\ \E normalize \in NormalizeChoices(last.reply) :
          LET o == classify_intent_result(last.msg, last.reply, normalize)
          IN  last' = [last EXCEPT !.op = "get_mode_recommendation", !.ret = o.kind,
                                   !.result = o.value, !.mode = ModeOf(o.value),
                                   !.calls = generate_response_calls(last.msg)]
    /\ UNCHANGED <<wfState, files, dirs, now, ops>>

\* the property read on a result built by a caller or returned by classify_intent
read_primary_intent ==
    /\ last.op \in {"result", "classify_intent"}
    /\ last.ret = "return"
    /\ last' = [last EXCEPT !.op = "primary_intent",
                            !.mode = [mode |-> primary_intent(last.result),
                                      confidence |-> Tenths(0)]]
    /\ UNCHANGED <<wfState, files, dirs, now, ops>>

Scores == {Tenths(x) : x \in 0..MaxScore}

\* a result with any three scores, or a message and what the model call will do
InitIntent ==
    /\ feature_name = << >>
    /\ current_phase = "requirements"
    /\ content = NoContent
    /\ approved = NoApproval
    /\ files = << >>
    /\ dirs = {}
    /\ now = 0
    /\ ops = 0
    /\ \/ \E c \in Scores, d \in Scores, s \in Scores :
             last = [op |-> "result", msg |-> << >>, reply |-> NoReply, ret |-> "return",
                     result |-> IntentResult(c, d, s), mode |-> NoMode, calls |-> 0]
       \/ \E m \in IntentMessages, r \in Replies :
             last = [op |-> "message", msg |-> m, reply |-> r, ret |-> "none",
                     result |-> DefaultDo, mode |-> NoMode, calls |-> 0]

NextIntent ==
    \/ classify_intent
    \/ get_mode_recommendation
    \/ read_primary_intent

SpecIntent == InitIntent /\ [][NextIntent]_vars

\* the intent a state reports for the scores of its result
Chosen == last.mode.mode
SpecStrictlyGreatest == RatGt(last.result.spec, last.result.chat) /\ RatGt(last.result.spec, last.result.do)
IntentChosen == last.op \in {"primary_intent", "get_mode_recommendation"}

\* C9 as stated: the intent is "spec" exactly when spec is strictly greater than
\* both other scores; otherwise it is "do" whenever do >= chat (do wins a tie
\* with chat) and "chat" only when chat is strictly greater than do.
C9_DoWinsTieWithChat ==
    IntentChosen =>
        /\ Chosen = "spec" <=> SpecStrictlyGreatest
        /\ Chosen = "do" <=> (~SpecStrictlyGreatest /\ ~RatGt(last.result.chat, last.result.do))
        /\ Chosen = "chat" <=> (~SpecStrictlyGreatest /\ RatGt(last.result.chat, last.result.do))

\* C9 amended: the intent is "spec" exactly when spec is strictly greater than
\* both other scores; otherwise it is "do" only when do is strictly greater
\* than chat, and "chat" whenever chat >= do (chat wins a tie with do).
C9_ChatWinsTieWithDo ==
    IntentChosen =>
        /\ Chosen = "spec" <=> SpecStrictlyGreatest
        /\ Chosen = "do" <=> (~SpecStrictlyGreatest /\ RatGt(last.result.do, last.result.chat))
        /\ Chosen = "chat" <=> (~SpecStrictlyGreatest /\ ~RatGt(last.result.do, last.result.chat))

\* chat and do tie above spec, and the primary intent read is "chat"
C9_Witness ==
    /\ last.op = "primary_intent"
    /\ RatEq(last.result.do, last.result.chat)
    /\ RatGt(last.result.do, last.result.spec)
    /\ Chosen = "chat"

\* a JSON object whose chat, do and spec values are all numbers
CarriesThreeNumbers(reply) ==
    /\ reply.kind = "json_object"
    /\ \A k \in RequiredKeys : reply.fields[k].t = "number"

\* C10: for a message that no fast-path rule matches, classify_intent does not
\* raise and returns exactly (chat=0.1, do=0.8, spec=0.1), whose primary intent
\* is "do", whenever the model call raises or its reply is not a JSON object
\* carrying the three numeric fields chat, do and spec.
C10_NonConformingReplyGivesDefault ==
    (/\ last.op = "classify_intent"
     /\ ~_rule_based_classification(last.msg).hit
     /\ ~CarriesThreeNumbers(last.reply))
    => /\ last.ret = "return"
       /\ last.result = DefaultDo
       /\ primary_intent(last.result) = "do"

\* the message ends with a question mark
EndsWithQuestionMark(msg) == Len(msg) >= 1 /\ msg[Len(msg)] = "?"

\* the message starts with a listed opener followed by whitespace
StartsWithOpener(msg) ==
    Len(msg) >= 2 /\ msg[1] \in ImperativeVerbs \cup WhOpeners \cup YesNoOpeners

\* C11: for a message that contains a spec keyword, or starts with a listed
\* verb, wh-opener or yes/no-opener followed by whitespace, or ends with a
\* question mark, classify_intent returns the fixed rule vector ((0.0, 0.1, 0.9)
\* for a spec keyword, else (0.1, 0.8, 0.1)) and never calls the AI gateway.
C11_RuleVectorWithoutModelCall ==
    (/\ last.op = "classify_intent"
     /\ \/ AnyPhrase(last.msg, spec_keywords)
        \/ StartsWithOpener(last.msg)
        \/ EndsWithQuestionMark(last.msg))
    => /\ last.calls = 0
       /\ last.ret = "return"
       /\ last.result = IF AnyPhrase(last.msg, spec_keywords) THEN StrongSpec ELSE DefaultDo

-----------------------------------------------------------------------------
(* Vibe coding engine: file operations (vibe_coding.py) *)

\* a file of the working directory; a backup under .kiro/backups is named
\* <name>.<timestamp>.backup, the timestamp having a resolution of one second
WorkFile(name) == [dir |-> "work", doc |-> name, stamp |-> NoStamp]
VibeBackup(name, ts) == [dir |-> ".kiro/backups", doc |-> name, stamp |-> ts]

Remove(fs, q) == [p \in DOMAIN fs \ {q} |-> fs[p]]

\* content.split('\n'): the pieces between the line feeds, always at least one
RECURSIVE SplitLF(_)
SplitLF(s) ==
    IF \A i \in 1..Len(s) : s[i] # "LF" THEN <<s>>
    ELSE LET i == CHOOSE k \in 1..Len(s) : s[k] = "LF" /\ \A j \in 1..(k - 1) : s[j] # "LF"
         IN  <<SubSeq(s, 1, i - 1)>> \o SplitLF(SubSeq(s, i + 1, Len(s)))

\* f.readlines() in text mode: the lines with their "\n"; only the last line
\* can come without one
RECURSIVE KeepEnds(_)
KeepEnds(s) ==
    IF s = << >> THEN << >>
    ELSE IF \A i \in 1..Len(s) : s[i] # "LF" THEN <<s>>
    ELSE LET i == CHOOSE k \in 1..Len(s) : s[k] = "LF" /\ \A j \in 1..(k - 1) : s[j] # "LF"
         IN  <<SubSeq(s, 1, i)>> \o KeepEnds(SubSeq(s, i + 1, Len(s)))

readlines(raw) == KeepEnds(ReadText(raw))

RECURSIVE Concat(_)
Concat(ls) == IF ls = << >> THEN << >> ELSE Head(ls) \o Concat(Tail(ls))

\* f.writelines(lines) in text mode
writelines(ls) == WriteText(Concat(ls))

\* [line + '\n' for line in new_lines]
WithLineFeeds(pieces) == [i \in 1..Len(pieces) |-> Append(pieces[i], "LF")]

Min(a, b) == IF a < b THEN a ELSE b
Max(a, b) == IF a > b THEN a ELSE b

SliceAssign_mut(ls, start_idx, end_idx, new) ==
    LET lo == Min(start_idx, Len(ls))
        hi == Max(Min(end_idx, Len(ls)), lo)
    IN  SubSeq(ls, 1, lo) \o new \o SubSeq(ls, hi, Len(ls))

\* lines[start_idx:end_idx] = new, for indices that are not negative: a slice
\* is cut to the length of the list and is empty when it would end before it
\* starts
SliceAssign(ls, start_idx, end_idx, new) ==
    LET lo == Min(start_idx, Len(ls))
        hi == Max(Min(end_idx, Len(ls)), lo)
    IN  SubSeq(ls, 1, lo) \o new \o SubSeq(ls, hi + 1, Len(ls))

NoRange == [line_start |-> 0, line_end |-> 0, given |-> FALSE]
Range(a, b) == [line_start |-> a, line_end |-> b, given |-> TRUE]

FileOperation(operation, file_path, text, range, backup) ==
    [operation |-> operation, file_path |-> file_path, content |-> text,
     range |-> range, backup |-> backup]

\* the outcome of one operation: the disk afterwards, whether it raised, and what
\* .kiro/backups held at the moment the file was written or removed
Done(fs, seen) == [fs |-> fs, raised |-> FALSE, changed |-> TRUE, backups_seen |-> seen]
Failed(fs) == [fs |-> fs, raised |-> TRUE, changed |-> FALSE, backups_seen |-> {}]

BackupTexts(fs) == {fs[p] : p \in {q \in DOMAIN fs : q.dir = ".kiro/backups"}}

\* shutil.copy2(file_path, backup_path)
_create_backup(fs, name, clock) == (VibeBackup(name, clock) :> fs[WorkFile(name)]) @@ fs

_create_file(fs, op, io) ==
    IF io # "ok" THEN Failed(fs)
    ELSE Done((WorkFile(op.file_path) :> WriteText(op.content)) @@ fs, BackupTexts(fs))

_modify_file(fs, op, clock, io) ==
    IF WorkFile(op.file_path) \notin DOMAIN fs THEN Failed(fs)
    ELSE IF io # "ok" THEN Failed(fs)
    ELSE LET kept == IF op.backup THEN _create_backup(fs, op.file_path, clock) ELSE fs
             lines == readlines(kept[WorkFile(op.file_path)])
             new_lines == WithLineFeeds(SplitLF(op.content))
             result == IF op.range.given
                       THEN SliceAssign(lines, op.range.line_start - 1, op.range.line_end,
                                        new_lines)
                       ELSE new_lines
         IN  Done((WorkFile(op.file_path) :> writelines(result)) @@ kept, BackupTexts(kept))

_delete_file(fs, op, clock, io) ==
    IF WorkFile(op.file_path) \notin DOMAIN fs THEN Failed(fs)
    ELSE IF io # "ok" THEN Failed(fs)
    ELSE LET kept == IF op.backup THEN _create_backup(fs, op.file_path, clock) ELSE fs
         IN  Done(Remove(kept, WorkFile(op.file_path)), BackupTexts(kept))

\* one turn of the loop of execute_file_operations
Execute(fs, op, clock, io) ==
    IF op.operation = "create" THEN _create_file(fs, op, io)
    ELSE IF op.operation = "modify" THEN _modify_file(fs, op, clock, io)
    ELSE IF op.operation = "delete" THEN _delete_file(fs, op, clock, io)
    ELSE [fs |-> fs, raised |-> FALSE, changed |-> FALSE, backups_seen |-> {}]

\* what a turn of the loop adds to errors
ErrorsOf(op, outcome) ==
    IF outcome.raised THEN <<"Error executing">>
    ELSE IF op.operation \notin {"create", "modify", "delete", "read"}
         THEN <<"Unknown operation">>
    ELSE << >>

RECURSIVE RunOperations_mut(_, _, _, _, _)
RunOperations_mut(fs, operations, ios, clock, i) ==
    IF i > Len(operations) THEN [fs |-> fs, errors |-> << >>, steps |-> << >>]
    ELSE LET op == operations[i]
             o == Execute(fs, op, clock, ios[i])
             rest == IF o.raised THEN [fs |-> o.fs, errors |-> << >>, steps |-> << >>]
                     ELSE RunOperations_mut(o.fs, operations, ios, clock, i + 1)
             existed == WorkFile(op.file_path) \in DOMAIN fs
             step == [index |-> i,
                      existed |-> existed,
                      prior |-> IF existed THEN fs[WorkFile(op.file_path)] ELSE << >>,
                      after |-> IF WorkFile(op.file_path) \in DOMAIN o.fs
                                THEN o.fs[WorkFile(op.file_path)] ELSE Absent,
                      raised |-> o.raised,
                      changed |-> o.changed,
                      backups_seen |-> o.backups_seen,
                      errors |-> Len(ErrorsOf(op, o))]
         IN  [fs |-> rest.fs,
              errors |-> ErrorsOf(op, o) \o rest.errors,
              steps |-> <<step>> \o rest.steps]

\* the loop of execute_file_operations from operation i on: the disk at the
\* end, the errors collected, and for every operation what it found and did
RECURSIVE RunOperations(_, _, _, _, _)
RunOperations(fs, operations, ios, clock, i) ==
    IF i > Len(operations) THEN [fs |-> fs, errors |-> << >>, steps |-> << >>]
    ELSE LET op == operations[i]
             o == Execute(fs, op, clock, ios[i])
             rest == RunOperations(o.fs, operations, ios, clock, i + 1)
             existed == WorkFile(op.file_path) \in DOMAIN fs
             step == [index |-> i,
                      existed |-> existed,
                      prior |-> IF existed THEN fs[WorkFile(op.file_path)] ELSE << >>,
                      after |-> IF WorkFile(op.file_path) \in DOMAIN o.fs
                                THEN o.fs[WorkFile(op.file_path)] ELSE Absent,
                      raised |-> o.raised,
                      changed |-> o.changed,
                      backups_seen |-> o.backups_seen,
                      errors |-> Len(ErrorsOf(op, o))]
         IN  [fs |-> rest.fs,
              errors |-> ErrorsOf(op, o) \o rest.errors,
              steps |-> <<step>> \o rest.steps]

VibeNames == {"a.py", "b.py"}
VibeTexts == {<< >>, <<"x", "LF", "y">>, <<"x", "LF">>}
VibeRanges == {NoRange, Range(1, 1), Range(2, 3), Range(3, 3)}

\* the operations handed to execute_file_operations
Operations ==
    {FileOperation("create", n, <<"x">>, NoRange, TRUE) : n \in VibeNames}
    \cup {FileOperation("modify", "a.py", x, r, TRUE) : x \in VibeTexts, r \in VibeRanges}
    \cup {FileOperation("modify", "b.py", <<"x">>, NoRange, b) : b \in BOOLEAN}
    \cup {FileOperation("delete", "a.py", << >>, NoRange, TRUE),
          FileOperation("delete", "b.py", << >>, NoRange, FALSE),
          FileOperation("read", "a.py", << >>, NoRange, TRUE),
          FileOperation("move", "a.py", << >>, NoRange, TRUE)}

RECURSIVE OperationLists(_)
OperationLists(n) ==
    IF n = 0 THEN {<< >>}
    ELSE LET shorter == OperationLists(n - 1)
         IN  shorter \cup {Append(l, op) : l \in shorter, op \in Operations}

execute_file_operations ==
    /\ last.op = "init"
    /\ \E operations \in OperationLists(MaxFileOps) :
       \E ios \in [1..Len(operations) -> IOOutcomes] :
          LET run == RunOperations(files, operations, ios, now, 1)
          IN  /\ files' = run.fs
              /\ last' = [op |-> "execute_file_operations", operations |-> operations,
                          success |-> (Len(run.errors) = 0), errors |-> run.errors,
                          steps |-> run.steps]
    /\ UNCHANGED <<wfState, dirs, now, ops>>

\* the working directory before the call: a.py is missing, or has three lines
\* with or without a final line feed; b.py is missing or has one line
InitialDisks ==
    {a @@ b : a \in {<< >>,
                     WorkFile("a.py") :> <<"p", "LF", "q", "LF", "r", "LF">>,
                     WorkFile("a.py") :> <<"p", "LF", "q", "LF", "r">>},
              b \in {<< >>, WorkFile("b.py") :> <<"s", "LF">>}}

InitVibe ==
    /\ feature_name = << >>
    /\ current_phase = "requirements"
    /\ content = NoContent
    /\ approved = NoApproval
    /\ files \in InitialDisks
    /\ dirs = {}
    /\ now = 0
    /\ ops = 0
    /\ last = [op |-> "init", operations |-> << >>, success |-> TRUE, errors |-> << >>,
               steps |-> << >>]

NextVibe == execute_file_operations

SpecVibe == InitVibe /\ [][NextVibe]_vars

Steps == {last.steps[i] : i \in 1..Len(last.steps)}
OperationOf(step) == last.operations[step.index]

\* C12: whenever execute_file_operations changes or removes the content of a
\* file that was in the working directory, through a create, modify or delete
\* operation with the default backup flag, a copy of the content the file had
\* is under .kiro/backups by the time the file is written or removed.
C12_BackupBeforeDestructiveEdit ==
    last.op = "execute_file_operations" =>
        \A st \in Steps :
            (/\ st.existed
             /\ st.changed
             /\ st.after # st.prior
             /\ OperationOf(st).backup)
            => st.prior \in st.backups_seen

\* an operation failed: it raised, or its kind is none of the four known ones
OperationFailed(st) ==
    \/ st.raised
    \/ OperationOf(st).operation \notin {"create", "modify", "delete", "read"}

\* C13: execute_file_operations attempts every operation of its list, in list
\* order, whether or not earlier ones failed; success is true exactly when no
\* operation failed, and errors has exactly one entry for each failed operation.
C13_EveryOperationAttempted ==
    last.op = "execute_file_operations" =>
        /\ Len(last.steps) = Len(last.operations)
        /\ \A i \in 1..Len(last.steps) : last.steps[i].index = i
        /\ last.success <=> (\A st \in Steps : ~OperationFailed(st))
        /\ Len(last.errors) = Cardinality({st \in Steps : OperationFailed(st)})
        /\ \A st \in Steps : st.errors = IF OperationFailed(st) THEN 1 ELSE 0

\* the first operation raised and the second one still changed a file
C13_Witness ==
    /\ last.op = "execute_file_operations"
    /\ Len(last.steps) = 2
    /\ last.steps[1].raised
    /\ last.steps[2].changed
    /\ ~last.success
    /\ Len(last.errors) = 1

\* the lines of a file as a reader gets them, without their line ends
WithoutEnd(line) ==
    IF line # << >> /\ line[Len(line)] = "LF" THEN SubSeq(line, 1, Len(line) - 1) ELSE line
LinesOf(raw) == [i \in 1..Len(readlines(raw)) |-> WithoutEnd(readlines(raw)[i])]

RangedModify(st) ==
    /\ OperationOf(st).operation = "modify"
    /\ OperationOf(st).range.given
    /\ st.existed
    /\ ~st.raised
    /\ 1 <= OperationOf(st).range.line_start
    /\ OperationOf(st).range.line_start <= OperationOf(st).range.line_end
    /\ OperationOf(st).range.line_end <= Len(LinesOf(st.prior))

-----------------------------------------------------------------------------
(* Vibe coding engine: parsing a model response (vibe_coding.py) *)

(* A response is the sequence of its lines.  A line is a directive (its marker   *)
(* followed by a path or a command), a code fence, or a line of other text.      *)
Directive(marker, path) == [kind |-> marker, arg |-> path, ranged |-> FALSE]
RangedDirective(path) == [kind |-> "FILE_MODIFY:", arg |-> path, ranged |-> TRUE]
Fence == [kind |-> "fence", arg |-> "", ranged |-> FALSE]
TextLine(t) == [kind |-> "text", arg |-> t, ranged |-> FALSE]

Markers == {"FILE_CREATE:", "FILE_MODIFY:", "FILE_DELETE:", "SHELL_COMMAND:"}

ResponseLines ==
    {Directive("FILE_CREATE:", "a.py"), Directive("FILE_CREATE:", "ba.py"),
     Directive("FILE_MODIFY:", "a.py"), RangedDirective("a.py"),
     Directive("FILE_DELETE:", "a.py"), Directive("SHELL_COMMAND:", "ls"),
     Fence, TextLine("x"), TextLine("y")}

RECURSIVE Responses(_)
Responses(n) ==
    IF n = 0 THEN {<< >>}
    ELSE LET shorter == Responses(n - 1)
         IN  shorter \cup {Append(r, l) : r \in shorter, l \in ResponseLines}

\* file_path in line, for the paths and lines above: "a.py" is part of "ba.py"
PathInLine(file_path, line) ==
    /\ line.kind \in {"FILE_CREATE:", "FILE_MODIFY:", "FILE_DELETE:"}
    /\ \/ line.arg = file_path
       \/ file_path = "a.py" /\ line.arg = "ba.py"

\* any(op in line for op in [the four markers])
HasMarker(line) == line.kind \in Markers

\* the loop over the lines after the file mention: the lines collected
RECURSIVE CollectBlock(_, _, _)
CollectBlock(lines, i, in_code_block) ==
    IF i > Len(lines) THEN << >>
    ELSE IF lines[i].kind = "fence"
         THEN IF in_code_block THEN << >> ELSE CollectBlock(lines, i + 1, TRUE)
    ELSE (IF in_code_block THEN <<lines[i]>> ELSE << >>)
         \o (IF HasMarker(lines[i]) THEN << >>
             ELSE CollectBlock(lines, i + 1, in_code_block))

\* the lines collected are returned joined and right-stripped; no line of
\* ResponseLines is blank, so stripping takes nothing but the last line feed
_extract_code_for_file(lines, file_path) ==
    LET mentions == {i \in 1..Len(lines) :
                        /\ PathInLine(file_path, lines[i])
                        /\ lines[i].kind \in {"FILE_CREATE:", "FILE_MODIFY:"}}
    IN  IF mentions = {} THEN << >>
        ELSE LET file_line_idx == CHOOSE i \in mentions : \A j \in mentions : i <= j
             IN  CollectBlock(lines, file_line_idx + 1, FALSE)

ParsedOperation(operation, path, text, ranged, line) ==
    [operation |-> operation, file_path |-> path, content |-> text, ranged |-> ranged,
     line |-> line]

\* _parse_response_for_operations: the file operations and the shell commands,
\* each with the number of the line it was read from
RECURSIVE ParseFrom(_, _)
ParseFrom(lines, i) ==
    IF i > Len(lines) THEN [file_operations |-> << >>, shell_commands |-> << >>]
    ELSE LET rest == ParseFrom(lines, i + 1)
             l == lines[i]
         IN  IF l.kind = "FILE_CREATE:"
             THEN [rest EXCEPT !.file_operations =
                      <<ParsedOperation("create", l.arg, _extract_code_for_file(lines, l.arg),
                                        FALSE, i)>> \o @]
             ELSE IF l.kind = "FILE_MODIFY:"
             THEN [rest EXCEPT !.file_operations =
                      <<ParsedOperation("modify", l.arg, _extract_code_for_file(lines, l.arg),
                                        l.ranged, i)>> \o @]
             ELSE IF l.kind = "FILE_DELETE:"
             THEN [rest EXCEPT !.file_operations =
                      <<ParsedOperation("delete", l.arg, << >>, FALSE, i)>> \o @]
             ELSE IF l.kind = "SHELL_COMMAND:"
             THEN [rest EXCEPT !.shell_commands = <<[command |-> l.arg, line |-> i]>> \o @]
             ELSE rest

_parse_response_for_operations ==
    /\ last.op = "response"
    /\ last' = [last EXCEPT !.op = "_parse_response_for_operations",
                            !.parsed = ParseFrom(last.response, 1)]
    /\ UNCHANGED <<wfState, files, dirs, now, ops>>

InitParse ==
    /\ feature_name = << >>
    /\ current_phase = "requirements"
    /\ content = NoContent
    /\ approved = NoApproval
    /\ files = << >>
    /\ dirs = {}
    /\ now = 0
    /\ ops = 0
    /\ \E r \in Responses(MaxLines) :
          last = [op |-> "response", response |-> r,
                  parsed |-> [file_operations |-> << >>, shell_commands |-> << >>]]

NextParse == _parse_response_for_operations

SpecParse == InitParse /\ [][NextParse]_vars

FileMarkers == {"FILE_CREATE:", "FILE_MODIFY:", "FILE_DELETE:"}
OperationKind(marker) ==
    IF marker = "FILE_CREATE:" THEN "create"
    ELSE IF marker = "FILE_MODIFY:" THEN "modify" ELSE "delete"

\* the numbers of the lines of a response with one of the given markers, ascending
RECURSIVE LinesWith(_, _, _)
LinesWith(lines, markers, i) ==
    IF i > Len(lines) THEN << >>
    ELSE (IF lines[i].kind \in markers THEN <<i>> ELSE << >>)
         \o LinesWith(lines, markers, i + 1)

\* the first line after i that satisfies a test, Len(lines) + 1 when none does
FirstAfter(lines, i, Test(_)) ==
    IF \E j \in (i + 1)..Len(lines) : Test(lines[j])
    THEN CHOOSE j \in (i + 1)..Len(lines) :
             Test(lines[j]) /\ \A k \in (i + 1)..(j - 1) : ~Test(lines[k])
    ELSE Len(lines) + 1

IsFence(line) == line.kind = "fence"

\* the interior of the first fenced block after directive line i that opens
\* before the next directive; empty when there is none
OwnBlock(lines, i) ==
    LET next == FirstAfter(lines, i, HasMarker)
        open == FirstAfter(lines, i, IsFence)
        close == FirstAfter(lines, open, IsFence)
    IN  IF open >= next THEN << >> ELSE SubSeq(lines, open + 1, close - 1)

\* the block after directive line i, if any, has no directive line inside
CleanBlock(lines, i) ==
    LET next == FirstAfter(lines, i, HasMarker)
        open == FirstAfter(lines, i, IsFence)
        close == FirstAfter(lines, open, IsFence)
    IN  open >= next \/ close <= FirstAfter(lines, open, HasMarker)

\* C14: parsing yields one file operation per FILE_CREATE, FILE_MODIFY and
\* FILE_DELETE line and one shell command per SHELL_COMMAND line, in line
\* order, and the content of each create or modify operation is the interior of
\* the first fenced block after its own directive line and before the next
\* directive (empty when there is none), whatever paths the other directives name.
C14_ContentIsOwnBlock ==
    last.op = "_parse_response_for_operations" =>
        LET lines == last.response
            fops == last.parsed.file_operations
            cmds == last.parsed.shell_commands
            flines == LinesWith(lines, FileMarkers, 1)
            clines == LinesWith(lines, {"SHELL_COMMAND:"}, 1)
        IN  /\ Len(fops) = Len(flines)
            /\ Len(cmds) = Len(clines)
            /\ \A k \in 1..Len(cmds) :
                   cmds[k].line = clines[k] /\ cmds[k].command = lines[clines[k]].arg
            /\ \A k \in 1..Len(fops) :
                   /\ fops[k].line = flines[k]
                   /\ fops[k].operation = OperationKind(lines[flines[k]].kind)
                   /\ fops[k].file_path = lines[flines[k]].arg
                   /\ (fops[k].operation # "delete" /\ CleanBlock(lines, flines[k]))
                          => fops[k].content = OwnBlock(lines, flines[k])

\* the fence lines of a response before line i
FencesBefore(lines, i) == {j \in 1..(i - 1) : IsFence(lines[j])}

\* line i lies in the interior of a fenced block: after an opening fence (an odd
\* number of fence lines precede it) and before the fence that closes the block
InsideFence(lines, i) ==
    /\ ~IsFence(lines[i])
    /\ Cardinality(FencesBefore(lines, i)) % 2 = 1
    /\ \E j \in (i + 1)..Len(lines) : IsFence(lines[j])

\* C28: a line in the interior of a fenced code block of a response never
\* produces a file operation or a shell command, so text that becomes the
\* content of a created or modified file is never read as a directive too.
C28_FencedLineIsNoDirective ==
    last.op = "_parse_response_for_operations" =>
        LET lines == last.response
            fops == last.parsed.file_operations
            cmds == last.parsed.shell_commands
        IN  /\ \A k \in 1..Len(fops) : ~InsideFence(lines, fops[k].line)
            /\ \A k \in 1..Len(cmds) : ~InsideFence(lines, cmds[k].line)

-----------------------------------------------------------------------------
(* Task executor: parsing tasks.md (task_executor.py) *)

(* A line of the document, stripped: a checkbox item "- [c] ..." whose text may  *)
(* start with a number and a dot, a heading, a bullet, other text, or nothing.   *)
(* box is the character in the checkbox; mentions_x tells whether "[x]" occurs   *)
(* in the text after the checkbox.                                               *)
TaskLine(shape, box, numbered, mentions_x) ==
    [shape |-> shape, box |-> box, numbered |-> numbered, mentions_x |-> mentions_x]

TaskDocLines ==
    {TaskLine("checkbox", " ", TRUE, FALSE),
     TaskLine("checkbox", "x", TRUE, FALSE),
     TaskLine("checkbox", "X", TRUE, FALSE),
     TaskLine("checkbox", " ", FALSE, FALSE),
     TaskLine("checkbox", " ", TRUE, TRUE),
     TaskLine("heading", "", FALSE, FALSE),
     TaskLine("bullet", "", FALSE, FALSE),
     TaskLine("text", "", FALSE, FALSE),
     TaskLine("blank", "", FALSE, FALSE)}

RECURSIVE TaskDocs(_)
TaskDocs(n) ==
    IF n = 0 THEN {<< >>}
    ELSE LET shorter == TaskDocs(n - 1)
         IN  shorter \cup {Append(d, l) : d \in shorter, l \in TaskDocLines}

\* re.match(r'^-\s*\[[\sx]\]\s*(\d+\.\s*.+)', line)
checkbox_match(line) ==
    line.shape = "checkbox" /\ line.box \in {" ", "x"} /\ line.numbered

\* "[x]" in original_line
HasLowerX(line) == line.shape = "checkbox" /\ (line.box = "x" \/ line.mentions_x)

\* line.startswith('-') or line.startswith('*'); a stripped line never starts
\* with blanks
StartsLikeBullet(line) == line.shape \in {"checkbox", "bullet"}

\* the elif branch: what a line that starts no task adds to the description
DescriptionLines(line) ==
    IF line.shape = "blank" \/ line.shape = "heading" THEN << >>
    ELSE IF StartsLikeBullet(line) THEN <<line>>
    ELSE IF line.shape # "checkbox" THEN <<line>>
    ELSE << >>

Task(n, line, status) ==
    [id |-> n, title |-> line, status |-> status, description |-> << >>]

\* the loop of _extract_tasks_from_markdown from line i on; cur is
\* <<current_task>> or << >>, and a task is appended when the next one starts
\* or the document ends
RECURSIVE ExtractFrom(_, _, _, _)
ExtractFrom(lines, i, cur, task_counter) ==
    IF i > Len(lines) THEN cur
    ELSE IF checkbox_match(lines[i])
         THEN cur \o ExtractFrom(lines, i + 1,
                                 <<Task(task_counter, lines[i],
                                        IF HasLowerX(lines[i]) THEN "completed"
                                        ELSE "pending")>>,
                                 task_counter + 1)
    ELSE IF cur # << >>
         THEN ExtractFrom(lines, i + 1,
                          <<[cur[1] EXCEPT !.description = @ \o DescriptionLines(lines[i])]>>,
                          task_counter)
    ELSE ExtractFrom(lines, i + 1, cur, task_counter)

_extract_tasks_from_markdown ==
    /\ last.op = "document"
    /\ last' = [last EXCEPT !.op = "_extract_tasks_from_markdown",
                            !.tasks = ExtractFrom(last.lines, 1, << >>, 1)]
    /\ UNCHANGED <<wfState, files, dirs, now, ops>>

InitTasks ==
    /\ feature_name = << >>
    /\ current_phase = "requirements"
    /\ content = NoContent
    /\ approved = NoApproval
    /\ files = << >>
    /\ dirs = {}
    /\ now = 0
    /\ ops = 0
    /\ \E d \in TaskDocs(MaxTaskLines) : last = [op |-> "document", lines |-> d, tasks |-> << >>]

NextTasks == _extract_tasks_from_markdown

SpecTasks == InitTasks /\ [][NextTasks]_vars

\* a line of the numbered-checkbox pattern: "- [ ] N. title" or "- [x] N. title"
NumberedCheckbox(line) == line.shape = "checkbox" /\ line.numbered /\ line.box \in {" ", "x"}

RECURSIVE Matching(_, _)
Matching(lines, i) ==
    IF i > Len(lines) THEN << >>
    ELSE (IF NumberedCheckbox(lines[i]) THEN <<lines[i]>> ELSE << >>) \o Matching(lines, i + 1)

\* C15: parsing yields exactly one Task per line of the numbered-checkbox
\* pattern, in encounter order with ids task-1 .. task-n and status completed
\* exactly when the checkbox of that line holds an x; and no line that is itself
\* a checkbox item (numbered or not, with [ ], [x] or [X]) is in a description.
C15_OneTaskPerNumberedCheckbox ==
    last.op = "_extract_tasks_from_markdown" =>
        LET expected == Matching(last.lines, 1)
        IN  /\ Len(last.tasks) = Len(expected)
            /\ \A k \in 1..Len(last.tasks) :
                   /\ last.tasks[k].id = k
                   /\ last.tasks[k].title = expected[k]
                   /\ last.tasks[k].status = "completed" <=> expected[k].box = "x"
                   /\ \A j \in 1..Len(last.tasks[k].description) :
                          last.tasks[k].description[j].shape # "checkbox"

-----------------------------------------------------------------------------
(* Conversation history (intent_classifier.py, ConversationManager) *)

\* ConversationManager(): max_history has the default value
max_history == 10

Roles == {"user", "assistant"}

\* self.history[-self.max_history:]
KeepRecent_mut(h) == SubSeq(h, 1, max_history)

KeepRecent(h) == SubSeq(h, Len(h) - max_history + 1, Len(h))

\* last.history is self.history; last.added lists what was added since the
\* history was last cleared
add_message(role) ==
    /\ last.op \in {"ConversationManager", "add_message", "clear_history"}
    /\ ops < MaxAdds
    /\ ops' = ops + 1
    /\ LET appended == Append(last.history, [role |-> role, content |-> ops])
       IN  last' = [op |-> "add_message",
                    history |-> IF Len(appended) > max_history THEN KeepRecent(appended)
                                ELSE appended,
                    added |-> Append(last.added, [role |-> role, content |-> ops])]
    /\ UNCHANGED <<wfState, files, dirs, now>>

clear_history ==
    /\ last.op = "add_message"
    /\ last' = [op |-> "clear_history", history |-> << >>, added |-> << >>]
    /\ UNCHANGED <<wfState, files, dirs, now, ops>>

InitHistory ==
    /\ feature_name = << >>
    /\ current_phase = "requirements"
    /\ content = NoContent
    /\ approved = NoApproval
    /\ files = << >>
    /\ dirs = {}
    /\ now = 0
    /\ ops = 0
    /\ last = [op |-> "ConversationManager", history |-> << >>, added |-> << >>]

NextHistory ==
    \/ \E r \in Roles : add_message(r)
    \/ clear_history

SpecHistory == InitHistory /\ [][NextHistory]_vars

\* C17: after any sequence of add_message and clear_history calls the history
\* holds at most 10 entries and equals, in order, the most recent min(k, 10)
\* messages added since the last clear, k being their number.
C17_HistoryIsRecentTen ==
    last.op \in {"ConversationManager", "add_message", "clear_history"} =>
        LET k == Len(last.added)
            m == IF k < 10 THEN k ELSE 10
        IN  /\ Len(last.history) <= 10
            /\ Len(last.history) = m
            /\ \A i \in 1..m : last.history[i] = last.added[k - m + i]

\* more than ten messages were added since the last clear: the oldest are gone
C17_Witness ==
    /\ last.op = "add_message"
    /\ Len(last.added) = 12
    /\ Len(last.history) = 10
    /\ last.history[1] = last.added[3]

-----------------------------------------------------------------------------
(* Model catalog and discovery (config.py) *)

NovaPro == "amazon.nova-pro-v1:0"
NovaPro24k == "amazon.nova-pro-v1:0:24k"
NovaPro300k == "amazon.nova-pro-v1:0:300k"
Claude37 == "anthropic.claude-3-7-sonnet-20250219-v1:0"
Claude35 == "anthropic.claude-3-5-sonnet-20241022-v2:0"
Titan == "amazon.titan-text-express-v1"
NoModelId == "(no modelId)"

BEDROCK_MODELS ==
    [n \in {"Amazon Nova Pro", "Amazon Nova Pro (24k context)",
            "Amazon Nova Pro (300k context)", "Anthropic Claude Sonnet 3.7",
            "Anthropic Claude 3.5 Sonnet v2"} |->
        IF n = "Amazon Nova Pro" THEN NovaPro
        ELSE IF n = "Amazon Nova Pro (24k context)" THEN NovaPro24k
        ELSE IF n = "Amazon Nova Pro (300k context)" THEN NovaPro300k
        ELSE IF n = "Anthropic Claude Sonnet 3.7" THEN Claude37
        ELSE Claude35]

\* the entries of modelSummaries: model ids, or an entry without 'modelId'
ListedModels == {NovaPro, NovaPro24k, Claude37, Claude35, Titan, NoModelId}

RECURSIVE Listings(_)
Listings(n) ==
    IF n = 0 THEN {<< >>}
    ELSE LET shorter == Listings(n - 1)
         IN  shorter \cup {Append(l, m) : l \in shorter, m \in ListedModels}

\* 'nova' in model_id.lower() and 'pro' in model_id.lower()
IsNovaPro(id) == id \in {NovaPro, NovaPro24k, NovaPro300k}
\* 'claude' in model_id.lower()
IsClaudeId(id) == id \in {Claude37, Claude35}
\* '3-7' in model_id or '3.7' in model_id
Is37(id) == id = Claude37
\* '3-5' in model_id or '3.5' in model_id
Is35(id) == id = Claude35

NoModels == [n \in {} |-> ""]

\* the two tests made on one entry of the listing
AfterNova(available, id) ==
    IF IsNovaPro(id) /\ (id = NovaPro \/ "Amazon Nova Pro" \notin DOMAIN available)
    THEN ("Amazon Nova Pro" :> id) @@ available
    ELSE available

AfterClaude(available, id) ==
    IF IsClaudeId(id)
       /\ (Is37(id) \/ (Is35(id) /\ "Anthropic Claude Sonnet 3.7" \notin DOMAIN available))
    THEN ("Anthropic Claude Sonnet 3.7" :> id) @@ available
    ELSE available

\* the loop over modelSummaries: the names found, or a KeyError
RECURSIVE Discover(_, _, _)
Discover(listing, i, available) ==
    IF i > Len(listing) THEN [success |-> TRUE, models |-> available]
    ELSE IF listing[i] = NoModelId THEN [success |-> FALSE, models |-> NoModels]
    ELSE Discover(listing, i + 1, AfterClaude(AfterNova(available, listing[i]), listing[i]))

\* list_foundation_models raises, or answers with a listing
discover_available_models(service, listing) ==
    IF service # "ok" THEN [success |-> FALSE, models |-> NoModels]
    ELSE Discover(listing, 1, NoModels)

\* BEDROCK_MODELS.update(discovered_models)
DictUpdate_mut(catalog, discovered) == discovered

DictUpdate(catalog, discovered) == discovered @@ catalog

\* last.catalog is the module-level BEDROCK_MODELS, last.listing what the
\* service listed in this run
test_aws_connectivity(sts, service, listing, runtime) ==
    /\ ops < MaxRuns
    /\ ops' = ops + 1
    /\ LET d == discover_available_models(service, listing)
           shown == IF sts = "ok" THEN d.models ELSE NoModels
       IN  last' = [op |-> "test_aws_connectivity",
                    listing |-> listing,
                    catalog |-> IF sts = "ok" /\ d.success /\ d.models # NoModels
                                THEN DictUpdate(last.catalog, d.models)
                                ELSE last.catalog,
                    discovered |-> shown,
                    ret |-> sts = "ok" /\ d.success /\ d.models # NoModels
                            /\ runtime = "ok"]
    /\ UNCHANGED <<wfState, files, dirs, now>>

InitCatalog ==
    /\ feature_name = << >>
    /\ current_phase = "requirements"
    /\ content = NoContent
    /\ approved = NoApproval
    /\ files = << >>
    /\ dirs = {}
    /\ now = 0
    /\ ops = 0
    /\ last = [op |-> "import", listing |-> << >>, catalog |-> BEDROCK_MODELS,
               discovered |-> NoModels, ret |-> FALSE]

NextCatalog ==
    \E sts \in IOOutcomes, service \in IOOutcomes, runtime \in IOOutcomes :
    \E listing \in IF sts = "ok" /\ service = "ok" THEN Listings(MaxModels) ELSE {<< >>} :
        test_aws_connectivity(sts, service, listing, runtime)

SpecCatalog == InitCatalog /\ [][NextCatalog]_vars

\* C18: after any run of the connectivity test every model name that was in
\* the catalog is still in it, and every name that discovery did not report
\* keeps the identifier it had.
C18_DiscoveryOnlyOverlays ==
    [][\A n \in DOMAIN last.catalog :
           /\ n \in DOMAIN last'.catalog
           /\ n \notin DOMAIN last'.discovered => last'.catalog[n] = last.catalog[n]]_vars

\* discovery found only a Nova identifier: the Nova entry has it, and both
\* Claude entries are as they were at the start
C18_Witness ==
    /\ last.op = "test_aws_connectivity"
    /\ DOMAIN last.discovered = {"Amazon Nova Pro"}
    /\ last.catalog["Amazon Nova Pro"] = NovaPro24k
    /\ last.catalog["Anthropic Claude Sonnet 3.7"] = Claude37
    /\ last.catalog["Anthropic Claude 3.5 Sonnet v2"] = Claude35
    /\ DOMAIN last.catalog = DOMAIN BEDROCK_MODELS

-----------------------------------------------------------------------------
(* Feature-name sanitization on its own (file_manager.py) *)

\* a letter in either case, a digit, space, underscore, hyphen and punctuation
NameChars == {"F", "x", "1", " ", "_", "-", "!"}
Punctuation == {"!"}

RECURSIVE Names(_)
Names(n) ==
    IF n = 0 THEN {<< >>}
    ELSE LET shorter == Names(n - 1)
         IN  shorter \cup {Append(x, c) : x \in shorter, c \in NameChars}

\* the function applied to a name, and then to what it returned
sanitize ==
    /\ last.op = "name"
    /\ last' = [last EXCEPT !.op = "sanitized", !.once = _sanitize_feature_name(last.name)]
    /\ UNCHANGED <<wfState, files, dirs, now, ops>>

sanitize_again ==
    /\ last.op = "sanitized"
    /\ last' = [last EXCEPT !.op = "sanitized_again",
                            !.twice = _sanitize_feature_name(last.once)]
    /\ UNCHANGED <<wfState, files, dirs, now, ops>>

InitSanitize ==
    /\ feature_name = << >>
    /\ current_phase = "requirements"
    /\ content = NoContent
    /\ approved = NoApproval
    /\ files = << >>
    /\ dirs = {}
    /\ now = 0
    /\ ops = 0
    /\ \E n \in Names(MaxNameLen) : last = [op |-> "name", name |-> n, once |-> << >>,
                                            twice |-> << >>]

NextSanitize == sanitize \/ sanitize_again

SpecSanitize == InitSanitize /\ [][NextSanitize]_vars

\* C19: sanitization is total and idempotent, sanitize(sanitize(s)) =
\* sanitize(s), and the empty string and every string made only of punctuation
\* sanitize to "unnamed-feature".
C19_SanitizeIdempotent ==
    /\ last.op = "sanitized_again" => last.twice = last.once
    /\ (/\ last.op \in {"sanitized", "sanitized_again"}
        /\ \A i \in 1..Len(last.name) : last.name[i] \in Punctuation)
       => last.once = UnnamedFeature

\* a name with upper case, blanks, underscore and punctuation was sanitized
\* twice, and the second pass had nothing left to change
C19_Witness ==
    /\ last.op = "sanitized_again"
    /\ last.name = <<"F", "_", " ", "!">>
    /\ last.once = <<"f">>
    /\ last.twice = <<"f">>

-----------------------------------------------------------------------------
(* Resuming a specification from disk (SpecWorkflow.load_existing_spec) *)

\* `if text:` for what load_document returned: neither None nor ""
Truthy(text) == text # Absent /\ text # << >>

\* the phase chosen from what exists
PhaseFor_mut(requirements, design, tasks) ==
    IF Truthy(requirements) THEN "design"
    ELSE IF Truthy(design) THEN "tasks"
    ELSE IF Truthy(tasks) THEN "complete"
    ELSE "requirements"

PhaseFor(requirements, design, tasks) ==
    IF Truthy(tasks) THEN "complete"
    ELSE IF Truthy(design) THEN "tasks"
    ELSE IF Truthy(requirements) THEN "design"
    ELSE "requirements"

load_existing_spec ==
    /\ last.op = "init"
    /\ LET loaded == [t \in DocTypes |-> load_document(files, feature_name, t)]
       IN  /\ content' = [t \in DocTypes |-> IF Truthy(loaded[t]) THEN loaded[t] ELSE content[t]]
           /\ approved' = [t \in DocTypes |-> IF Truthy(loaded[t]) THEN TRUE ELSE approved[t]]
           /\ current_phase' = PhaseFor(loaded["requirements"], loaded["design"],
                                        loaded["tasks"])
    /\ last' = [op |-> "load_existing_spec", ret |-> "True"]
    /\ UNCHANGED <<feature_name, files, dirs, now, ops>>

\* what a document file can hold when the workflow is constructed: nothing (the
\* file is missing), the empty text, or some text
DiskTexts == {Absent, << >>, <<"a">>, <<"a", "CR", "LF", "b">>}

DiskFor(dir, texts) ==
    [p \in {DocPath(dir, t) : t \in {u \in DocTypes : texts[u] # Absent}} |-> texts[p.doc]]

\* a freshly constructed workflow over a directory in any of these conditions
InitLoad ==
    /\ feature_name \in WfNames
    /\ current_phase = "requirements"
    /\ content = NoContent
    /\ approved = NoApproval
    /\ \E texts \in [DocTypes -> DiskTexts] :
          files = DiskFor(_sanitize_feature_name(feature_name), texts)
    /\ dirs = {_sanitize_feature_name(feature_name)}
    /\ now = 0
    /\ ops = 0
    /\ last = [op |-> "init", ret |-> "None"]

NextLoad == load_existing_spec

SpecLoad == InitLoad /\ [][NextLoad]_vars

\* <type>.md of the workflow's directory holds content
HoldsContent(t) ==
    /\ DocPath(SpecDir, t) \in DOMAIN files
    /\ files[DocPath(SpecDir, t)] # << >>

is_complete ==
    /\ current_phase = "complete"
    /\ approved["requirements"] /\ approved["design"] /\ approved["tasks"]

\* C24: in every reachable state of a workflow, also after load_existing_spec
\* on any combination of documents, current_phase = complete implies that all
\* three approval flags are set and all three contents are non-empty, so that
\* is_complete() is true whenever the completion screen is shown.
C24_CompleteMeansAllApproved ==
    current_phase = "complete" =>
        /\ \A t \in DocTypes : approved[t] /\ content[t] # << >>
        /\ is_complete

-----------------------------------------------------------------------------
(* Task executor: executing a task (TaskExecutor.execute_task) *)

(* A tasks document is a text whose characters are "LF" and whole line        *)
(* contents: the executor looks at a line only through the tests below.       *)

Setup == "- [ ] 1. Setup"
SetupDone == "- [x] 1. Setup"
CoreAuth == "- [ ] 2. Core auth"
Tokens == "- [ ] 2.1 Tokens"
Docs == "- [ ] 3. Docs"

\* the identifiers handed to execute_task: "task-N" for "execute task N", or a
\* word of the task's name
TaskIds == {"task-1", "task-2", "task-3", "task-4", "docs"}

\* f"<!-- TASK_COMPLETED: {task_id} at {timestamp} -->"
Marker(task_id) ==
    [id \in TaskIds |->
        CASE id = "task-1" -> "<!-- TASK_COMPLETED: task-1 -->"
          [] id = "task-2" -> "<!-- TASK_COMPLETED: task-2 -->"
          [] id = "task-3" -> "<!-- TASK_COMPLETED: task-3 -->"
          [] id = "task-4" -> "<!-- TASK_COMPLETED: task-4 -->"
          [] OTHER -> "<!-- TASK_COMPLETED: docs -->"][task_id]

CheckboxLines == {Setup, SetupDone, CoreAuth, Tokens, Docs}

\* line.strip() of a piece of content.split('\n'), as the record the parser's
\* tests read; a piece is empty or one line content
StripLine(piece) ==
    IF piece = << >> THEN [shape |-> "blank", box |-> "", numbered |-> FALSE,
                           mentions_x |-> FALSE, text |-> << >>]
    ELSE IF Len(piece) = 1 /\ piece[1] \in CheckboxLines
         THEN [shape |-> "checkbox", box |-> IF piece[1] = SetupDone THEN "x" ELSE " ",
               numbered |-> TRUE, mentions_x |-> FALSE, text |-> piece]
    ELSE [shape |-> "text", box |-> "", numbered |-> FALSE, mentions_x |-> FALSE,
          text |-> piece]

\* _determine_priority(title)
_determine_priority(title) == IF title.text = <<CoreAuth>> THEN "High" ELSE "Medium"

\* the file of parse_tasks_from_spec, _get_spec_context and _mark_task_completed
TasksFile(spec_name) ==
    WorkFile([n \in {"f"} |-> ".kiro/specs/f/tasks.md"][spec_name])

\* parse_tasks_from_spec: no tasks when the file is missing
parse_tasks_from_spec(fs, spec_name) ==
    IF TasksFile(spec_name) \notin DOMAIN fs THEN << >>
    ELSE LET pieces == SplitLF(ReadText(fs[TasksFile(spec_name)]))
         IN  ExtractFrom([i \in 1..Len(pieces) |-> StripLine(pieces[i])], 1, << >>, 1)


\* t.id == task_id
IdOf(n) == [k \in 1..4 |-> <<"task-1", "task-2", "task-3", "task-4">>[k]][n]

\* task_id.lower() in t.title.lower()
InTitle(task_id, title) == task_id = "docs" /\ title.text = <<Docs>>

\* the loop that finds the task: the first task that matches, << >> for None
RECURSIVE FindTask(_, _, _)
FindTask(tasks, task_id, i) ==
    IF i > Len(tasks) THEN << >>
    ELSE IF (tasks[i].id <= 4 /\ IdOf(tasks[i].id) = task_id) \/ InTitle(task_id, tasks[i].title)
         THEN <<tasks[i]>>
         ELSE FindTask(tasks, task_id, i + 1)

\* _mark_task_completed: nothing without the file or when a file cannot be
\* opened; else the content read, with the marker after it, is written back
_mark_task_completed(fs, task_id, spec_name, io) ==
    IF TasksFile(spec_name) \notin DOMAIN fs THEN fs
    ELSE IF io # "ok" THEN fs
    ELSE (TasksFile(spec_name) :>
             WriteText(ReadText(fs[TasksFile(spec_name)])
                       \o <<"LF", "LF", Marker(task_id)>>)) @@ fs

\* what process_vibe_request hands back: success and file_operations
VibeResult(success, file_operations) ==
    [success |-> success, file_operations |-> file_operations]

\* the file operations a model response can ask for
ExecOperations ==
    {FileOperation("create", "a.py", <<"x">>, NoRange, TRUE),
     FileOperation("delete", "a.py", << >>, NoRange, TRUE),
     FileOperation("modify", ".kiro/specs/f/tasks.md", <<SetupDone>>, Range(1, 1), TRUE),
     FileOperation("delete", ".kiro/specs/f/tasks.md", << >>, NoRange, FALSE)}

RECURSIVE ExecOperationLists(_)
ExecOperationLists(n) ==
    IF n = 0 THEN {<< >>}
    ELSE LET shorter == ExecOperationLists(n - 1)
         IN  shorter \cup {Append(l, op) : l \in shorter, op \in ExecOperations}

execute_task_result_mut(fs, task_id, spec_name, result, ios, mark_io, clock) ==
    LET tasks == parse_tasks_from_spec(fs, spec_name)
        task == FindTask(tasks, task_id, 1)
    IN  IF task = << >> THEN [fs |-> fs, ret |-> "not found", task |-> task]
        ELSE IF ~result.success THEN [fs |-> fs, ret |-> "Failed to implement task", task |-> task]
        ELSE IF result.file_operations = << >>
             THEN [fs |-> fs, ret |-> "No file operations were needed", task |-> task]
        ELSE LET run == RunOperations(fs, result.file_operations, ios, clock, 1)
             IN  [fs |-> _mark_task_completed(run.fs, task_id, spec_name, mark_io),
                  ret |-> IF Len(run.errors) = 0 THEN "Task Completed"
                          ELSE "file operations failed",
                  task |-> task]

\* execute_task for one behaviour of the model and of the disk: the disk
\* afterwards, the kind of message returned and the task that was found
execute_task_result(fs, task_id, spec_name, result, ios, mark_io, clock) ==
    LET tasks == parse_tasks_from_spec(fs, spec_name)
        task == FindTask(tasks, task_id, 1)
    IN  IF task = << >> THEN [fs |-> fs, ret |-> "not found", task |-> task]
        ELSE IF ~result.success THEN [fs |-> fs, ret |-> "Failed to implement task", task |-> task]
        ELSE IF result.file_operations = << >>
             THEN [fs |-> fs, ret |-> "No file operations were needed", task |-> task]
        ELSE LET run == RunOperations(fs, result.file_operations, ios, clock, 1)
             IN  IF Len(run.errors) = 0
                 THEN [fs |-> _mark_task_completed(run.fs, task_id, spec_name, mark_io),
                       ret |-> "Task Completed", task |-> task]
                 ELSE [fs |-> run.fs, ret |-> "file operations failed", task |-> task]

\* get_next_task: the title recommended, or what is said instead
RECURSIVE FirstOpen(_, _, _)
FirstOpen(tasks, high_only, i) ==
    IF i > Len(tasks) THEN << >>
    ELSE IF tasks[i].status # "completed"
            /\ (high_only => _determine_priority(tasks[i].title) = "High")
         THEN <<tasks[i]>>
         ELSE FirstOpen(tasks, high_only, i + 1)

get_next_task_result(fs, spec_name) ==
    LET tasks == parse_tasks_from_spec(fs, spec_name)
    IN  IF tasks = << >> THEN [say |-> "No tasks found", task |-> << >>]
        ELSE IF FirstOpen(tasks, TRUE, 1) # << >>
             THEN [say |-> "Next Recommended Task", task |-> FirstOpen(tasks, TRUE, 1)]
        ELSE IF FirstOpen(tasks, FALSE, 1) # << >>
             THEN [say |-> "Next Task", task |-> FirstOpen(tasks, FALSE, 1)]
        ELSE [say |-> "All tasks completed", task |-> << >>]

NoTask == << >>

execute_task(task_id, spec_name) ==
    /\ last.op = "init"
    /\ \E success \in BOOLEAN, operations \in ExecOperationLists(MaxFileOps),
          mark_io \in IOOutcomes :
       \E ios \in [1..Len(operations) -> IOOutcomes] :
          LET r == execute_task_result(files, task_id, spec_name,
                                       VibeResult(success, operations), ios, mark_io, now)
          IN  /\ files' = r.fs
              /\ last' = [op |-> "execute_task", task_id |-> task_id, spec_name |-> spec_name,
                          before |-> files, success |-> success,
                          operations |-> operations, ios |-> ios,
                          ret |-> r.ret, task |-> r.task, next |-> NoTask, say |-> ""]
    /\ UNCHANGED <<wfState, dirs, now, ops>>

get_next_task(spec_name) ==
    /\ last.op = "execute_task"
    /\ LET r == get_next_task_result(files, spec_name)
       IN  last' = [last EXCEPT !.op = "get_next_task", !.next = r.task, !.say = r.say]
    /\ UNCHANGED <<wfState, files, dirs, now, ops>>

\* tasks.md of specification f before the call: missing, empty, three tasks,
\* one of them done, or two-level numbering; a.py is there or not
ExecDisks ==
    {t @@ a : t \in {<< >>,
                     TasksFile("f") :> << >>,
                     TasksFile("f") :> <<Setup, "LF", CoreAuth, "LF", Docs, "LF">>,
                     TasksFile("f") :> <<SetupDone, "LF", Docs>>,
                     TasksFile("f") :> <<Setup, "LF", CoreAuth, "LF", Tokens, "LF", Docs>>},
              a \in {<< >>, WorkFile("a.py") :> <<"p", "LF">>}}

InitExec ==
    /\ feature_name = << >>
    /\ current_phase = "requirements"
    /\ content = NoContent
    /\ approved = NoApproval
    /\ files \in ExecDisks
    /\ dirs = {}
    /\ now = 0
    /\ ops = 0
    /\ last = [op |-> "init", task_id |-> "", spec_name |-> "f", before |-> files,
               success |-> FALSE, operations |-> << >>, ios |-> << >>,
               ret |-> "", task |-> NoTask, next |-> NoTask, say |-> ""]

NextExec ==
    \/ \E task_id \in TaskIds : execute_task(task_id, "f")
    \/ get_next_task("f")

SpecExec == InitExec /\ [][NextExec]_vars


\* tasks.md of the specification ends with the completion marker of the call
Marked ==
    /\ TasksFile(last.spec_name) \in DOMAIN files
    /\ files[TasksFile(last.spec_name)] # << >>
    /\ files[TasksFile(last.spec_name)][Len(files[TasksFile(last.spec_name)])]
           = Marker(last.task_id)

\* the disk as the file operations of the call leave it
AfterOperations == RunOperations(last.before, last.operations, last.ios, now, 1)

\* the task was resolved, the vibe-coding request succeeded, at least one file
\* operation was produced and every operation applied without error
AllApplied ==
    /\ last.task # NoTask
    /\ last.success
    /\ last.operations # << >>
    /\ Len(AfterOperations.errors) = 0

\* tasks.md of the specification, or Absent
TasksText(fs) ==
    IF TasksFile(last.spec_name) \in DOMAIN fs THEN fs[TasksFile(last.spec_name)] ELSE Absent

\* C22 as stated: the marker is appended only when the task was resolved, the
\* request succeeded, operations were produced and all applied; in every other
\* outcome tasks.md is unchanged.
C22_MarkerOnlyAfterFullSuccess ==
    last.op = "execute_task" =>
        /\ Marked => AllApplied
        /\ ~AllApplied => TasksText(files) = TasksText(last.before)

\* C22 amended: the marker is appended only when the task was resolved, the
\* request succeeded, operations were produced and all applied; in every other
\* outcome the executor itself writes nothing to tasks.md, which holds what it
\* held before or, where file operations ran, what they left in it.
C22_MarkerOnlyAfterFullSuccessOrOperations ==
    last.op = "execute_task" =>
        /\ Marked => AllApplied
        /\ ~AllApplied =>
              TasksText(files) =
                  IF last.task # NoTask /\ last.success
                  THEN TasksText(AfterOperations.fs)
                  ELSE TasksText(last.before)

\* a task was executed, every operation applied, and the marker is in tasks.md
C22_Witness ==
    /\ last.op = "execute_task"
    /\ last.ret = "Task Completed"
    /\ AllApplied
    /\ Marked
    /\ TasksText(files) # TasksText(last.before)


\* the task of the given id in a later parse of tasks.md, << >> without one
RECURSIVE TaskOfId(_, _, _)
TaskOfId(tasks, id, i) ==
    IF i > Len(tasks) THEN << >>
    ELSE IF tasks[i].id = id THEN <<tasks[i]>>
    ELSE TaskOfId(tasks, id, i + 1)

\* C27: after execute_task has reported a task as completed, a later parse of
\* the tasks document reports that task with status completed, and
\* get_next_task no longer recommends it.
C27_CompletedTaskStaysCompleted ==
    (last.op = "get_next_task" /\ last.ret = "Task Completed") =>
        LET later == TaskOfId(parse_tasks_from_spec(files, last.spec_name),
                              last.task[1].id, 1)
        IN  /\ later # << >> => later[1].status = "completed"
            /\ last.next # << >> => last.next[1].id # last.task[1].id

\* the number with which the title of a task line begins
NumberOfTitle(title) ==
    IF title.text \in {<<Setup>>, <<SetupDone>>} THEN "1"
    ELSE IF title.text = <<CoreAuth>> THEN "2"
    ELSE IF title.text = <<Tokens>> THEN "2.1"
    ELSE "3"

\* the N of the identifier that "execute task N" yields
NumberOfId(task_id) ==
    [id \in {"task-1", "task-2", "task-3", "task-4"} |->
        CASE id = "task-1" -> "1" [] id = "task-2" -> "2" [] id = "task-3" -> "3"
          [] OTHER -> "4"][task_id]

\* C30: for "execute task N" and any tasks document, also one with two-level
\* numbering, the task executed is the one whose title begins with the number
\* N, never a task that carries another number.
C30_ExecutesTaskNumberedN ==
    (last.op = "execute_task" /\ last.task_id # "docs" /\ last.task # NoTask) =>
        NumberOfTitle(last.task[1].title) = NumberOfId(last.task_id)

-----------------------------------------------------------------------------
(* Chat-driven workflow (KiroSpecWorkflow) *)

(* current_feature_name is feature_name, << >> for None; the workflow writes  *)
(* its documents itself, into the directory named by the extracted name.      *)

\* what ai_client.generate_response does for a prompt: a text, or it raises
LegacyReplies == {<<"d", "o", "c">>, <<"n", "e", "w">>, <<"raise">>}

\* feedback given to a handler, in lower case and stripped
Feedbacks == {"yes, looks good", "approved", "y", "not good", "add a login page", "no"}

\* _is_approval: an approval word occurs in the feedback ("not good" holds
\* "good"), or the feedback is one of the short positive answers
_is_approval(feedback) == feedback \in {"yes, looks good", "approved", "y", "not good"}

\* the document a _generate_* method hands back: the reply, or a text naming
\* the error when the model call raised
Generated(reply) == IF reply = <<"raise">> THEN <<"e", "r", "r">> ELSE reply

Handled(fs, next_action) == [fs |-> fs, next_action |-> next_action]

\* the name _extract_feature_name finds in the idea
IdeaName == <<"f">>

_create_design_document(fs, name, reply, io) ==
    IF name = << >> THEN Handled(fs, "error")
    ELSE IF DocPath(name, "requirements") \notin DOMAIN fs THEN Handled(fs, "error")
    ELSE IF io # "ok" THEN Handled(fs, "raise")
    ELSE Handled((DocPath(name, "design") :> WriteText(Generated(reply))) @@ fs,
                  "design-review")

_create_tasks_document(fs, name, reply, io) ==
    IF name = << >> THEN Handled(fs, "error")
    ELSE IF DocPath(name, "requirements") \notin DOMAIN fs
            \/ DocPath(name, "design") \notin DOMAIN fs
         THEN Handled(fs, "error")
    ELSE IF io # "ok" THEN Handled(fs, "raise")
    ELSE Handled((DocPath(name, "tasks") :> WriteText(Generated(reply))) @@ fs,
                  "tasks-review")

_complete_workflow(fs) == Handled(fs, "complete")

\* _update_requirements, _update_design, _update_tasks
_update_document(fs, name, t, reply, io) ==
    IF DocPath(name, t) \notin DOMAIN fs THEN Handled(fs, "error")
    ELSE IF reply = <<"raise">> \/ io # "ok" THEN Handled(fs, "error")
    ELSE Handled((DocPath(name, t) :> WriteText(reply)) @@ fs,
                  IF t = "requirements" THEN "requirements-review"
                  ELSE IF t = "design" THEN "design-review"
                  ELSE "tasks-review")

\* the phase a handler sets on approval, and what it then calls
ApprovedPhase_mut(t) ==
    IF t = "requirements" THEN "tasks"
    ELSE IF t = "design" THEN "tasks"
    ELSE "complete"

ApprovedPhase(t) ==
    IF t = "requirements" THEN "design"
    ELSE IF t = "design" THEN "tasks"
    ELSE "complete"

AfterApproval(fs, name, t, reply, io) ==
    IF t = "requirements" THEN _create_design_document(fs, name, reply, io)
    ELSE IF t = "design" THEN _create_tasks_document(fs, name, reply, io)
    ELSE _complete_workflow(fs)

LegacyCall(op, t, feedback, before, next_action) ==
    [op |-> op, doc |-> t, feedback |-> feedback, before |-> before,
     next_action |-> next_action]

create_spec_from_idea ==
    \E reply \in LegacyReplies, io \in IOOutcomes :
       /\ feature_name' = IdeaName
       /\ dirs' = IF io = "ok" THEN dirs \cup {IdeaName} ELSE dirs
       /\ files' = IF io = "ok"
                   THEN (DocPath(IdeaName, "requirements") :> WriteText(Generated(reply)))
                        @@ files
                   ELSE files
       /\ last' = LegacyCall("create_spec_from_idea", "requirements", "", current_phase,
                             IF io = "ok" THEN "requirements-review" ELSE "raise")
       /\ UNCHANGED <<current_phase, content, approved, now, ops>>

\* handle_requirements_feedback, handle_design_feedback, handle_tasks_feedback
handle_feedback(t) ==
    \E feedback \in Feedbacks, reply \in LegacyReplies, io \in IOOutcomes :
       LET r == IF feature_name = << >> THEN Handled(files, "error")
                ELSE IF _is_approval(feedback)
                     THEN AfterApproval(files, feature_name, t, reply, io)
                     ELSE _update_document(files, feature_name, t, reply, io)
       IN  /\ current_phase' = IF feature_name # << >> /\ _is_approval(feedback)
                               THEN ApprovedPhase(t) ELSE current_phase
           /\ files' = r.fs
           /\ last' = LegacyCall("handle_feedback", t, feedback, current_phase,
                                 r.next_action)
           /\ UNCHANGED <<feature_name, content, approved, dirs, now, ops>>

handle_requirements_feedback == handle_feedback("requirements")

handle_design_feedback == handle_feedback("design")

handle_tasks_feedback == handle_feedback("tasks")

InitLegacy ==
    /\ feature_name = << >>
    /\ current_phase = "requirements"
    /\ content = NoContent
    /\ approved = NoApproval
    /\ files = << >>
    /\ dirs = {}
    /\ now = 0
    /\ ops = 0
    /\ last = LegacyCall("init", "none", "", "requirements", "none")

NextLegacy ==
    \/ create_spec_from_idea
    \/ handle_requirements_feedback
    \/ handle_design_feedback
    \/ handle_tasks_feedback

SpecLegacy == InitLegacy /\ [][NextLegacy]_vars


\* the review action of a phase, and the one that follows it
ReviewOf(phase) ==
    IF phase = "requirements" THEN "requirements-review"
    ELSE IF phase = "design" THEN "design-review"
    ELSE "tasks-review"

NextReviewOf(phase) ==
    IF phase = "requirements" THEN "design-review"
    ELSE IF phase = "design" THEN "tasks-review"
    ELSE "complete"

\* the last call was a feedback handler, and the handler of the phase the
\* workflow was in
HandlerOfCurrentPhase == last.op = "handle_feedback" /\ last.doc = last.before

\* the documents that the step after the approved phase reads are on disk
NeededDocuments ==
    /\ last.before \in {"requirements", "design"} =>
           DocPath(feature_name, "requirements") \in DOMAIN files
    /\ last.before = "design" => DocPath(feature_name, "design") \in DOMAIN files

C29_ErrorLeavesPhase ==
    (last.op = "handle_feedback" /\ last.next_action = "error") =>
        current_phase = last.before

-----------------------------------------------------------------------------
(* Task executor reading what the workflow engine saved *)

\* str.strip()
RECURSIVE StripSpaces(_)
StripSpaces(s) ==
    IF s # << >> /\ IsSpaceChar(Head(s)) THEN StripSpaces(Tail(s))
    ELSE IF s # << >> /\ IsSpaceChar(s[Len(s)]) THEN StripSpaces(SubSeq(s, 1, Len(s) - 1))
    ELSE s

\* re.sub(r'\s+', '-', s)
RECURSIVE SpacesToHyphen(_, _)
SpacesToHyphen(s, inRun) ==
    IF s = << >> THEN << >>
    ELSE IF IsSpaceChar(Head(s))
         THEN (IF inRun THEN << >> ELSE <<"-">>) \o SpacesToHyphen(Tail(s), TRUE)
         ELSE <<Head(s)>> \o SpacesToHyphen(Tail(s), FALSE)

CodeSpecification ==
    <<"c", "o", "d", "e", "-", "s", "p", "e", "c", "i", "f", "i", "c", "a", "t", "i", "o", "n">>

\* ChatInterface._extract_feature_name on "create spec for <rest>", and the
\* default of _create_spec_from_chat when nothing is left of the name; a rest
\* of blanks only matches no pattern
_extract_feature_name(rest) ==
    LET lowered == [i \in 1..Len(rest) |-> LowerChar(rest[i])]
        kept(c) == IsWordChar(c) \/ IsSpaceChar(c) \/ c = "-"
        cleaned == SpacesToHyphen(SelectSeq(StripSpaces(lowered), kept), FALSE)
    IN  IF cleaned = << >> THEN CodeSpecification ELSE cleaned

\* the file parse_tasks_from_spec opens: spec_name is used as it is given
tasks_file(spec_name) == DocPath(spec_name, "tasks")

\* parse_tasks_from_spec up to the text it hands to the parser: Absent when
\* the file does not exist
tasks_file_content(fs, spec_name) ==
    IF tasks_file(spec_name) \notin DOMAIN fs THEN Absent
    ELSE ReadText(fs[tasks_file(spec_name)])

\* task_executor.get_next_task(current_workflow.feature_name) and the other
\* calls of the chat dispatch that read the tasks of the active workflow
read_tasks_of_workflow ==
    /\ Counted
    /\ last.op # "parse_tasks_from_spec"
    /\ last' = [op |-> "parse_tasks_from_spec", doc |-> "tasks",
                ret |-> IF tasks_file_content(files, feature_name) = Absent
                        THEN "[]" ELSE "tasks",
                ai |-> FALSE, wrote |-> FALSE, backup |-> NoPath,
                text |-> tasks_file_content(files, feature_name)]
    /\ UNCHANGED <<wfState, files, dirs, now>>

\* the names of an active workflow: typed into the wizard, which wants a name
\* that is not empty, or extracted from a chat message
ActiveNames ==
    (Names(MaxNameLen) \ {<< >>}) \cup {_extract_feature_name(r) : r \in Names(MaxNameLen)}

InitRead ==
    /\ feature_name \in ActiveNames
    /\ current_phase = "requirements"
    /\ content = NoContent
    /\ approved = NoApproval
    /\ files = << >>
    /\ dirs = {_sanitize_feature_name(feature_name)}
    /\ now = 0
    /\ last = Rejected("init", "none", "None")
    /\ ops = 0

NextRead ==
    \/ create_requirements(<<"a">>, "ok")
    \/ approve_requirements
    \/ create_design(<<"a">>, "ok")
    \/ approve_design
    \/ \E reply \in AIReplies : create_tasks(reply, "ok")
    \/ read_tasks_of_workflow

SpecRead == InitRead /\ [][NextRead]_vars

\* C26: for every feature name of an active workflow, the directory from which
\* the task executor reads is the directory into which the document store
\* wrote, so that the tasks saved by create_tasks are what
\* parse_tasks_from_spec(workflow.feature_name) reads.
C26_ExecutorReadsWhatStoreWrote ==
    (last.op = "parse_tasks_from_spec" /\ content["tasks"] # << >>) =>
        /\ tasks_file(feature_name).dir = SpecDir
        /\ last.text = content["tasks"]

=============================================================================
